---- MODULE Spec2Model ----
(***************************************************************************)
(* The LSH index engine of lsh-rs: the LSH struct (lsh/lsh.rs) over the    *)
(* in-memory backend (table/mem.rs) and the SQL backend (table/sqlite.rs), *)
(* with the hasher families of hash.rs and multi-probe querying            *)
(* (multi_probe.rs).                                                       *)
(*                                                                         *)
(* Tables and ids are numbered from 0 as in the source.  A Rust Vec is a   *)
(* sequence; element i of the Vec is element i + 1 of the sequence.        *)
(***************************************************************************)
EXTENDS Integers, Sequences, FiniteSets, Bags, TLC

\* Largest number of hash tables (L) a built index has.
MaxL == 2
\* Largest number of inserted vectors plus update and delete calls on one index.
MaxOps == 3
\* Largest batch handed to store_vecs / store_array.
MaxBatch == 2
\* Largest hash length (K) an index built for multi-probe querying has.
MaxK == 2
\* Largest multi-probe budget a caller sets, the budgets around the number of
\* perturbations apart.
MaxBudget == 4
\* Largest number of times a run opens the database file again.
MaxReopens == 1
\* Largest dimension of the presence vectors handed to a MinHash hasher.
MaxDim == 3

VARIABLES
    backend,            \* the type parameter T of LSH: "mem" (MemoryTable) or "sql" (SqlTable)
    n_hash_tables,      \* LSH.n_hash_tables
    n_projections,      \* LSH.n_projections
    dim,                \* LSH.dim
    hashers,            \* LSH.hashers : one hyperplane matrix per table
    only_index_storage, \* LSH.only_index_storage
    hash_tables,        \* LSH.hash_tables : None or the installed backend
    panicked,           \* the process aborted (unwrap on None, index out of bounds)
    last,               \* the last call and what it returned
    stored,             \* history: every (vector, id) an insert returned
    fresh,              \* those of stored with no update / delete call since
    live,               \* those of stored whose id no update / delete call named since
    updated,            \* history: an update_by_idx call was made
    deleted,            \* history: a delete_vec call was made
    gone,               \* history: the vectors deleted and not inserted again since
    n_inserted,         \* history: number of vectors inserted
    n_ops,              \* history: inserted vectors plus update and delete calls
    budget,             \* the largest n_ops this run may reach
    family,             \* the type parameter H of LSH: "srp", "l2", "mips" or "minhash"
    multi_probe,        \* LSH._multi_probe
    multi_probe_budget, \* LSH._multi_probe_budget
    build,              \* "debug" (overflow checks on) or "release" (integers wrap)
    tie_break,          \* which of two equal-score perturb states BinaryHeap::pop yields
    sql_fault,          \* the storage layer fails the statements it is handed
    committed_stored,   \* history: stored as it was when commit() last returned Ok
    dump_file,          \* the file dump(path) wrote, and the settings of the index that did
    par,                \* a query_bucket_ids_batch_par call: its inputs, what the worker
                        \* threads have returned, and the order they finished in
    reopened,           \* history: how often the database file was opened again, and
                        \* whether the last opener generated other hashers than it holds
    probe               \* a query_directed_probe call: its heap, the codewords collected,
                        \* the rounds left, and the perturb states popped so far

vars == <<backend, n_hash_tables, n_projections, dim, hashers, only_index_storage,
          hash_tables, panicked, last, stored, fresh, live, updated, deleted,
          gone, n_inserted, n_ops, budget, family, multi_probe, multi_probe_budget,
          build, tie_break, sql_fault, committed_stored, dump_file, par, reopened, probe>>

\* what no store, update, delete or query call writes
config == <<backend, n_hash_tables, n_projections, dim, hashers, only_index_storage,
            budget, family, multi_probe, multi_probe_budget, build, tie_break,
            sql_fault, committed_stored, dump_file, par, reopened, probe>>
history == <<stored, fresh, live, updated, deleted, gone, n_inserted, n_ops>>

\* what only construction and load write
shape == <<backend, n_hash_tables, n_projections, dim, family, build, tie_break, budget>>
\* what lies outside the index
surroundings == <<sql_fault, committed_stored, dump_file, par, reopened, probe>>

\* Option<T>: Some(val) or None; only the field some is read of a None
Some(x) == [some |-> TRUE, val |-> x]
None == [some |-> FALSE, val |-> 0]

\* the Option<Vec<H>> that is None
NoHashers == [some |-> FALSE, val |-> <<>>]

\* Result<T>: Ok(val) or Err(err)  (error.rs)
Ok(x) == [ok |-> TRUE, val |-> x, err |-> "None"]
Err(e) == [ok |-> FALSE, val |-> 0, err |-> e]

\* The data points the callers use: two points of dimension 2, and one of
\* the wrong dimension.
Vectors == {<<1, 0>>, <<0, 1>>}
BadVector == <<1, 0, 1>>

\* The rows a hyperplane matrix is drawn from: <<1, -1>> separates the two
\* data points (codes 1 and 0), <<1, 1>> makes them collide (code 1).
HyperplaneRows == {<<1, -1>>, <<1, 1>>}

\* batches that hold a vector of the wrong length, first or later
MisshapenBatches == {<<BadVector>>, <<<<1, 0>>, BadVector>>}

\* Ids a caller passes to update_by_idx.
Ids == {0, 1}

\* The rows the matrix a of an L2 hasher is drawn from, with b = 1 in every
\* component and r = 5: f = a.q + b is 4 or -2, so the data points fall into
\* the slots 0 and -1 under the first row and both into slot 0 under the
\* second, at distances 4 and 3 from the lower boundary.
L2Rows == {<<3, -3>>, <<3, 3>>}

\* The same rows for the hasher inside a MIPS hasher, which works on dim + m
\* components, m = 1.
MipsRows == {<<3, -3, 1>>, <<3, 3, 1>>}

\* The permutations of 1 .. n: the rows MinHash::new draws for pi.
permutation_idx(n) == {p \in [1 .. n -> 1 .. n] : \A i, j \in 1 .. n : p[i] = p[j] => i = j}

\* The presence vectors of length n.
PresenceVectors(n) == [1 .. n -> {0, 1}]

\* The hashers a builder may generate for one table.
GeneratedHashers(fam, K) ==
    CASE fam = "srp" -> [1 .. K -> HyperplaneRows]
      [] fam = "minhash" -> {[pi |-> rows, n_projections |-> K] :
                                rows \in [1 .. K -> permutation_idx(dim)]}
      [] fam = "l2" -> {[a |-> rows, b |-> [j \in 1 .. K |-> 1], r |-> 5] :
                           rows \in [1 .. K -> L2Rows]}
      [] fam = "mips" -> {[M |-> 0, m |-> 1, dim |-> 2,
                           hasher |-> [a |-> rows, b |-> [j \in 1 .. K |-> 1], r |-> 5]] :
                             rows \in [1 .. K -> MipsRows]}

\* The budgets a caller hands to multi_probe: the small ones, and the ones
\* around the number of perturbations of a hash of length 1 .. MaxK.
Budgets == (0 .. MaxBudget) \cup {2^(2 * k) - 1 + d : k \in 1 .. MaxK, d \in {0, 1}}

Range(s) == {s[i] : i \in DOMAIN s}

RECURSIVE SeqsUpTo(_, _)
SeqsUpTo(S, n) ==
    IF n = 0 THEN {<<>>}
    ELSE LET shorter == SeqsUpTo(S, n - 1)
         IN shorter \cup {Append(s, x) : s \in {q \in shorter : Len(q) = n - 1}, x \in S}

\* Every enumeration of a set without repetition: the orders in which a
\* FnvHashSet may be iterated.
Orders(S) == {s \in SeqsUpTo(S, Cardinality(S)) :
                 Len(s) = Cardinality(S) /\ Range(s) = S}

-----------------------------------------------------------------------------
(* hash.rs: the hasher families and the VecHash trait.  A                   *)
(* SignRandomProjections hasher is its hyperplane matrix; an L2 hasher is   *)
(* the record of its fields a, b and r; a MIPS hasher is the record of its  *)
(* fields M, m, dim and hasher, its U being 1/2 and its M 0 (not fitted) or *)
(* 1 (fitted on data points of norm 1); a MinHash hasher is the record of   *)
(* its fields pi and n_projections.                                         *)

RECURSIVE DotFrom(_, _, _)
DotFrom(a, v, i) == IF i > Len(a) THEN 0 ELSE a[i] * v[i] + DotFrom(a, v, i + 1)

Dot(a, v) == DotFrom(a, v, 1)

\* hyperplanes.dot(v).mapv(|ai| if ai > 0 { 1 } else { 0 })
hash_vec(hyperplanes, v) ==
    [j \in 1 .. Len(hyperplanes) |-> IF Dot(hyperplanes[j], v) > 0 THEN 1 ELSE 0]

\* a.dot(v): ndarray aborts the process when the lengths do not fit
dot_panics(v) == Len(v) # dim

\* floor((a.dot(x) + b) / r) for a data point given as scale * x
hash_and_cast_scaled(l2, x, scale) ==
    [j \in 1 .. Len(l2.a) |-> (Dot(l2.a[j], x) + scale * l2.b[j]) \div (scale * l2.r)]

\* L2::hash_and_cast_vec
hash_and_cast_vec(l2, v) == hash_and_cast_scaled(l2, v, 1)

\* MIPS::tranform_put, times 4: x / M * U, then the squared norm of that
tranform_put(mips, x) == [i \in 1 .. Len(x) |-> 2 * x[i]] \o <<Dot(x, x)>>

\* panic!("MIPS is not fitted")
tranform_put_panics(mips) == mips.M = 0

\* MIPS::transform_query, times 4: x / |x|, then m times 0.5
transform_query(mips, x) == [i \in 1 .. Len(x) |-> 4 * x[i]] \o <<2>>

\* MIPS::fit: M becomes the largest norm of the data points handed in
fit(mips, vs) == [mips EXCEPT !.M = IF Len(vs) = 0 THEN 0 ELSE 1]

\* view.into_iter().fold(init, ..) over one row of pi * v: the least product
\* above zero that is below init, else init
RECURSIVE MinHash_fold(_, _, _, _)
MinHash_fold(row, v, i, acc) ==
    IF i > Len(row) THEN acc
    ELSE MinHash_fold(row, v, i + 1,
                      IF row[i] * v[i] > 0 /\ row[i] * v[i] < acc THEN row[i] * v[i]
                      ELSE acc)

\* MinHash::hash_vec_query: init is K::from_usize(self.n_projections)
MinHash_hash_vec_query(h, v) ==
    [j \in 1 .. Len(h.pi) |-> MinHash_fold(h.pi[j], v, 1, h.n_projections)]

\* VecHash::hash_vec_query, as each family implements it
hash_vec_query(h, v) ==
    CASE family = "srp" -> hash_vec(h, v)
      [] family = "minhash" -> MinHash_hash_vec_query(h, v)
      [] family = "l2" -> hash_and_cast_vec(h, v)
      [] family = "mips" -> hash_and_cast_scaled(h.hasher, transform_query(h, v), 4)

\* Variant of hash_vec_put: an asymmetric hasher, whose put codeword is the
\* complement of the query codeword.
hash_vec_put_asymmetric(h, v) ==
    [j \in 1 .. Len(hash_vec_query(h, v)) |-> 1 - hash_vec_query(h, v)[j]]

\* VecHash::hash_vec_put: the trait's default is the query codeword; MIPS
\* hashes the transformed data point
hash_vec_put(h, v) ==
    IF family = "mips" THEN hash_and_cast_scaled(h.hasher, tranform_put(h, v), 4)
    ELSE hash_vec_query(h, v)

\* the put codeword cannot be computed: the process aborts
hash_vec_put_panics(v) ==
    \/ dot_panics(v)
    \/ family = "mips" /\ \E t \in DOMAIN hashers : tranform_put_panics(hashers[t])

\* the capabilities a family announces
as_query_directed_probe == family = "l2"
as_step_wise_probe == family = "srp"

-----------------------------------------------------------------------------
(* table/mem.rs: VecStore and MemoryTable *)

VecStore_push(map, d) == Append(map, d)

\* the first index holding d, or None
VecStore_position(map, d) ==
    LET hits == {i \in 1 .. Len(map) : map[i] = d}
    IN IF hits = {} THEN None
       ELSE Some((CHOOSE i \in hits : \A j \in hits : i <= j) - 1)

VecStore_get(map, idx) == map[idx + 1]

MemoryTable_new(L, only_index) ==
    [kind |-> "mem",
     hash_tables |-> [t \in 0 .. L - 1 |-> <<>>],
     n_hash_tables |-> L,
     vec_store |-> <<>>,
     only_index_storage |-> only_index,
     counter |-> 0,
     rows |-> <<>>,
     committed |-> FALSE,
     in_txn |-> FALSE,
     durable |-> <<>>,
     state |-> NoHashers]

\* a HashMap<Vec<K>, Bucket> with one more entry
MapInsert(tbl, hash, bucket) ==
    [h \in DOMAIN tbl \cup {hash} |-> IF h = hash THEN bucket ELSE tbl[h]]

remove_idx(ht, idx, hash, hash_table) ==
    LET tbl == ht.hash_tables[hash_table]
    IN IF hash \notin DOMAIN tbl
       THEN [ht |-> ht, res |-> Err("NotFound")]
       ELSE [ht |-> [ht EXCEPT !.hash_tables[hash_table] =
                                   MapInsert(tbl, hash, tbl[hash] \ {idx})],
             res |-> Ok(0)]

insert_idx(ht, idx, hash, hash_table) ==
    LET tbl == ht.hash_tables[hash_table]
        bucket == IF hash \in DOMAIN tbl THEN tbl[hash] ELSE {}
    IN [ht EXCEPT !.hash_tables[hash_table] = MapInsert(tbl, hash, bucket \cup {idx})]

MemoryTable_put(ht, hash, d, hash_table) ==
    LET idx == ht.counter
        inserted == insert_idx(ht, idx, hash, hash_table)
    IN [ht |-> IF hash_table = 0 /\ ~ht.only_index_storage
               THEN [inserted EXCEPT !.vec_store = VecStore_push(@, d)]
               ELSE IF hash_table = ht.n_hash_tables - 1
               THEN [inserted EXCEPT !.counter = @ + 1]
               ELSE inserted,
        res |-> Ok(idx)]

MemoryTable_delete(ht, hash, d, hash_table) ==
    LET idx == VecStore_position(ht.vec_store, d)
    IN IF ~idx.some THEN [ht |-> ht, res |-> Ok(0)]
       ELSE remove_idx(ht, idx.val, hash, hash_table)

\* Variant of MemoryTable_update_by_idx: the id is removed from the old bucket
\* and never inserted into the new one.
MemoryTable_update_by_idx_remove_only(ht, old_hash, new_hash, idx, hash_table) ==
    remove_idx(ht, idx, old_hash, hash_table)

MemoryTable_update_by_idx(ht, old_hash, new_hash, idx, hash_table) ==
    LET removed == remove_idx(ht, idx, old_hash, hash_table)
    IN IF ~removed.res.ok THEN removed
       ELSE [ht |-> insert_idx(removed.ht, idx, new_hash, hash_table), res |-> Ok(0)]

MemoryTable_query_bucket(ht, hash, hash_table) ==
    LET tbl == ht.hash_tables[hash_table]
    IN IF hash \notin DOMAIN tbl THEN [ht |-> ht, res |-> Err("NotFound")]
       ELSE [ht |-> ht, res |-> Ok(tbl[hash])]

\* &self.map[idx]: an index past the end aborts the process
MemoryTable_idx_to_datapoint(ht, idx) ==
    IF idx < Len(ht.vec_store) THEN Ok(VecStore_get(ht.vec_store, idx))
    ELSE Err("panic")

-----------------------------------------------------------------------------
(* table/sqlite.rs: SqlTable.  A table hash_table_{t} is a bag of           *)
(* (hash, id) rows: its schema has no key, so equal rows may repeat.  rows  *)
(* is what the connection reads, durable what the database file holds,      *)
(* in_txn whether the connection has a transaction open, and state the      *)
(* hashers kept in the table state of the file.                             *)

\* a database file no index has written yet
NewFile(L) == [rows |-> [t \in 0 .. L - 1 |-> EmptyBag], state |-> NoHashers]

\* Connection::open(path), then init_from_conn: the settings, the tables
\* when they are missing, and BEGIN TRANSACTION
SqlTable_open(L, only_index, file) ==
    [kind |-> "sql",
     hash_tables |-> <<>>,
     n_hash_tables |-> L,
     vec_store |-> <<>>,
     only_index_storage |-> only_index,
     counter |-> 0,
     rows |-> file.rows,
     committed |-> FALSE,
     in_txn |-> TRUE,
     durable |-> file.rows,
     state |-> file.state]

SqlTable_new(L, only_index) == SqlTable_open(L, only_index, NewFile(L))

\* INSERT INTO hash_table_{t} (hash, id) VALUES (?1, ?2); outside a
\* transaction the row reaches the file at once
insert_table(ht, hash_table, hash, idx) ==
    IF sql_fault THEN [ht |-> ht, res |-> Err("SqlFailure")]
    ELSE LET row == SetToBag({<<hash, idx>>})
             read == [ht EXCEPT !.rows[hash_table] = @ (+) row]
         IN [ht |-> IF ht.in_txn THEN read
                    ELSE [read EXCEPT !.durable[hash_table] = @ (+) row],
             res |-> Ok(1)]

SqlTable_put(ht, hash, d, hash_table) ==
    LET idx == ht.counter
    IN IF hash_table \notin 0 .. ht.n_hash_tables - 1
       THEN [ht |-> ht, res |-> Err("TableNotExist")]
       ELSE LET r == insert_table(ht, hash_table, hash, idx)
                counted == IF hash_table = ht.n_hash_tables - 1
                           THEN [r.ht EXCEPT !.counter = @ + 1]
                           ELSE r.ht
            IN CASE r.res.ok -> [ht |-> counted, res |-> Ok(idx)]
                 [] r.res.err = "SqlFailure" -> [ht |-> counted, res |-> Ok(idx)]
                 [] OTHER -> [ht |-> counted, res |-> Err("Failed")]

\* a commit that ends the transaction without keeping its rows
SqlTable_commit_rollback(ht) ==
    IF ht.committed THEN [ht |-> ht, res |-> Ok(0)]
    ELSE [ht |-> [ht EXCEPT !.committed = TRUE, !.in_txn = FALSE, !.rows = ht.durable],
          res |-> Ok(0)]

\* if !self.committed.replace(true) { COMMIT TRANSACTION }; COMMIT fails
\* when no transaction is open
SqlTable_commit(ht) ==
    IF ht.committed THEN [ht |-> ht, res |-> Ok(0)]
    ELSE LET flagged == [ht EXCEPT !.committed = TRUE]
         IN IF sql_fault \/ ~ht.in_txn THEN [ht |-> flagged, res |-> Err("SqlFailure")]
            ELSE [ht |-> [flagged EXCEPT !.in_txn = FALSE, !.durable = ht.rows],
                  res |-> Ok(0)]

\* self.committed.set(false); BEGIN TRANSACTION, which fails inside a
\* transaction
SqlTable_init_transaction(ht) ==
    LET flagged == [ht EXCEPT !.committed = FALSE]
    IN IF sql_fault \/ ht.in_txn THEN [ht |-> flagged, res |-> Err("SqlFailure")]
       ELSE [ht |-> [flagged EXCEPT !.in_txn = TRUE], res |-> Ok(0)]

\* self.commit()?; SELECT (id) FROM hash_table_{t} WHERE hash = ?
SqlTable_query_bucket(ht, hash, hash_table) ==
    LET c == SqlTable_commit(ht)
    IN IF ~c.res.ok THEN c
       ELSE IF sql_fault THEN [ht |-> c.ht, res |-> Err("Failed")]
       ELSE [ht |-> c.ht,
             res |-> Ok({r[2] : r \in {x \in BagToSet(c.ht.rows[hash_table]) :
                                          x[1] = hash}})]

\* CREATE TABLE state fails when the file has it; else the hashers are
\* inserted between a commit and a new transaction
SqlTable_store_hashers(ht, hs) ==
    IF sql_fault \/ ht.state.some THEN [ht |-> ht, res |-> Err("SqlFailure")]
    ELSE LET c == SqlTable_commit(ht)
         IN IF ~c.res.ok THEN c
            ELSE SqlTable_init_transaction([c.ht EXCEPT !.state = Some(hs)])

\* SELECT * FROM state
SqlTable_load_hashers(ht) ==
    IF sql_fault \/ ~ht.state.some THEN Err("SqlFailure") ELSE Ok(ht.state.val)

\* what the file holds once the connection is dropped: with the journal
\* off, the rows of an open transaction may or may not have reached it
FileAfterDrop(ht, kept) ==
    [rows |-> IF ht.in_txn /\ kept THEN ht.rows ELSE ht.durable, state |-> ht.state]

\* The HashTables trait's default for an operation a backend does not
\* implement.
HashTables_default(ht) == [ht |-> ht, res |-> Err("NotImplemented")]

-----------------------------------------------------------------------------
(* The HashTables trait as the engine calls it: the call goes to the        *)
(* installed backend.  Every operation yields the backend after the call    *)
(* and the call's Result.                                                   *)

put(ht, hash, d, hash_table) ==
    IF ht.kind = "mem" THEN MemoryTable_put(ht, hash, d, hash_table)
    ELSE SqlTable_put(ht, hash, d, hash_table)

delete(ht, hash, d, hash_table) ==
    IF ht.kind = "mem" THEN MemoryTable_delete(ht, hash, d, hash_table)
    ELSE HashTables_default(ht)

backend_update_by_idx(ht, old_hash, new_hash, idx, hash_table) ==
    IF ht.kind = "mem"
    THEN MemoryTable_update_by_idx(ht, old_hash, new_hash, idx, hash_table)
    ELSE HashTables_default(ht)

backend_query_bucket(ht, hash, hash_table) ==
    IF ht.kind = "mem" THEN MemoryTable_query_bucket(ht, hash, hash_table)
    ELSE SqlTable_query_bucket(ht, hash, hash_table)

idx_to_datapoint(ht, idx) ==
    IF ht.kind = "mem" THEN MemoryTable_idx_to_datapoint(ht, idx)
    ELSE HashTables_default(ht).res

\* T::new(n_hash_tables, only_index_storage, &db_path): the in-memory backend
\* ignores the path
HashTables_new(L, only_index, file) ==
    IF backend = "mem" THEN MemoryTable_new(L, only_index)
    ELSE SqlTable_open(L, only_index, file)

\* the in-memory backend keeps the trait's defaults: storing hashers does
\* nothing, loading them is not implemented
store_hashers(ht, hs) ==
    IF ht.kind = "mem" THEN [ht |-> ht, res |-> Ok(0)]
    ELSE SqlTable_store_hashers(ht, hs)

load_hashers(ht) ==
    IF ht.kind = "mem" THEN HashTables_default(ht).res
    ELSE SqlTable_load_hashers(ht)

-----------------------------------------------------------------------------
(* multi_probe.rs: the probing sequences.  usize is wider than the numbers  *)
(* the model holds, so a budget that wrapped around is kept as the flag     *)
(* wrapped: it then exceeds every count it is compared with or lowered by.  *)

\* the combinations of k of the indexes 0 .. n-1
Combinations(n, k) == {c \in SUBSET (0 .. n - 1) : Cardinality(c) = k}

\* c comes before d in the lexicographic order of their sorted index lists
LexBefore(c, d) ==
    /\ c # d
    /\ LET diff == (c \ d) \cup (d \ c)
       IN (CHOOSE i \in diff : \A j \in diff : i <= j) \in c

RECURSIVE InLexOrder(_)
InLexOrder(S) ==
    IF S = {} THEN <<>>
    ELSE LET first == CHOOSE c \in S : \A d \in S \ {c} : LexBefore(c, d)
         IN <<first>> \o InLexOrder(S \ {first})

binomial(n, k) == Cardinality(Combinations(n, k))

\* idx.combinations(n_perturbations), in itertools' order; an index from
\* switchpoint on stands for a shift of -1
step_wise_perturb(hash_length, n_perturbations, two_shifts) ==
    InLexOrder(Combinations(hash_length * (IF two_shifts THEN 2 ELSE 1), n_perturbations))

\* vec![0; hash_len] with the shifts of one combination added
new_perturb(hash_len, comb) ==
    [i \in 1 .. hash_len |-> (IF i - 1 \in comb THEN 1 ELSE 0)
                             + (IF i - 1 + hash_len \in comb THEN -1 ELSE 0)]

\* the while loop of step_wise_probing from round k on
RECURSIVE step_wise_probing_loop(_, _, _, _, _, _)
step_wise_probing_loop(hash_len, budget_left, wrapped, two_shifts, k, hash_perturbs) ==
    IF ~((wrapped \/ budget_left > 0) /\ k <= hash_len) THEN Ok(hash_perturbs)
    ELSE LET multiply == IF two_shifts THEN 2 ELSE 1
             n_combinations == binomial(hash_len, k) * multiply
             combs == step_wise_perturb(hash_len, k, two_shifts)
             taken == IF wrapped \/ budget_left >= Len(combs) THEN combs
                      ELSE SubSeq(combs, 1, budget_left)
             pushed == hash_perturbs
                       \o [i \in 1 .. Len(taken) |-> new_perturb(hash_len, taken[i])]
         IN IF wrapped
            THEN step_wise_probing_loop(hash_len, budget_left, TRUE, two_shifts,
                                        k + 1, pushed)
            ELSE IF budget_left >= n_combinations
            THEN step_wise_probing_loop(hash_len, budget_left - n_combinations, FALSE,
                                        two_shifts, k + 1, pushed)
            \* budget -= n_combinations below zero
            ELSE IF build = "debug" THEN Err("panic")
            ELSE step_wise_probing_loop(hash_len, 0, TRUE, two_shifts, k + 1, pushed)

step_wise_probing(hash_len, budget_given, two_shifts) ==
    step_wise_probing_loop(hash_len, budget_given, FALSE, two_shifts, 1, <<>>)

\* SignRandomProjections::step_wise_probe
step_wise_probe(h, q, budget_given, hash_len) ==
    LET probing_seq == step_wise_probing(hash_len, budget_given, FALSE)
        original_hash == hash_vec_query(h, q)
    IN IF ~probing_seq.ok THEN probing_seq
       ELSE Ok([p \in 1 .. Len(probing_seq.val) |->
                   [i \in 1 .. Len(original_hash) |->
                       IF probing_seq.val[p][i] = 1 THEN original_hash[i] * (-1)
                       ELSE original_hash[i]]])

\* L2::distance_to_bound with the codeword given: <<xi_min1, xi_plus1>>
distance_to_bound(l2, q, hash) ==
    LET f == [j \in 1 .. Len(l2.a) |-> Dot(l2.a[j], q) + l2.b[j]]
        xi_min1 == [j \in 1 .. Len(f) |-> f[j] - hash[j] * l2.r]
        xi_plus1 == [j \in 1 .. Len(f) |-> l2.r - xi_min1[j]]
    IN <<xi_min1, xi_plus1>>

\* index i sorts before index j; sort_unstable_by leaves the order of equal
\* distances open
SortsBefore(distances, i, j) ==
    \/ distances[i + 1] < distances[j + 1]
    \/ /\ distances[i + 1] = distances[j + 1]
       /\ IF tie_break = "first" THEN i < j ELSE i > j

\* the indexes of the least distances to the highest
RECURSIVE argsort_of(_, _)
argsort_of(distances, rest) ==
    IF rest = {} THEN <<>>
    ELSE LET least == CHOOSE i \in rest : \A j \in rest \ {i} : SortsBefore(distances, i, j)
         IN <<least>> \o argsort_of(distances, rest \ {least})

argsort(distances) == argsort_of(distances, 0 .. Len(distances) - 1)

PerturbState_new(z, distances, switchpoint, hash) ==
    [z |-> z, distances |-> distances, selection |-> <<0>>,
     switchpoint |-> switchpoint, original_hash |-> hash]

RECURSIVE score_from(_, _)
score_from(ps, k) ==
    IF k > Len(ps.selection) THEN 0
    ELSE ps.distances[ps.z[ps.selection[k] + 1] + 1] + score_from(ps, k + 1)

score(ps) == score_from(ps, 1)

\* zj mapped to (i, delta): <<index, delta>> for every selected zj
i_delta(ps) ==
    [k \in 1 .. Len(ps.selection) |->
        LET zj == ps.z[ps.selection[k] + 1]
        IN IF zj >= ps.switchpoint THEN <<zj - ps.switchpoint, 1>> ELSE <<zj, -1>>]

check_bounds(ps, selection, max) ==
    IF max = Len(ps.z) - 1 THEN Err("Failed")
    ELSE Ok([ps EXCEPT !.selection = Append(selection, max + 1)])

shift(ps) ==
    check_bounds(ps, SubSeq(ps.selection, 1, Len(ps.selection) - 1),
                 ps.selection[Len(ps.selection)])

\* Variant of expand: the last index is replaced as shift does, not kept.
expand_as_shift(ps) == shift(ps)

expand(ps) == check_bounds(ps, ps.selection, ps.selection[Len(ps.selection)])

RECURSIVE gen_hash_from(_, _, _)
gen_hash_from(hash, deltas, k) ==
    IF k > Len(deltas) THEN hash
    ELSE gen_hash_from([hash EXCEPT ![deltas[k][1] + 1] = @ + deltas[k][2]], deltas, k + 1)

\* Variant of gen_hash: every selected boundary lowers its element by one.
gen_hash_subtract_only(ps) ==
    gen_hash_from(ps.original_hash,
                  [k \in DOMAIN i_delta(ps) |-> <<i_delta(ps)[k][1], -1>>], 1)

gen_hash(ps) == gen_hash_from(ps.original_hash, i_delta(ps), 1)

\* Variant of heap_pop: the heap yields a state of greatest score.
heap_pop_greatest(heap) ==
    CHOOSE ai \in heap : \A other \in heap \ {ai} :
        \/ score(ai) > score(other)
        \/ /\ score(ai) = score(other)
           /\ LexBefore(Range(ai.selection), Range(other.selection))

\* BinaryHeap::pop under the reversed score order: a state of least score
heap_pop(heap) ==
    CHOOSE ai \in heap : \A other \in heap \ {ai} :
        \/ score(ai) < score(other)
        \/ /\ score(ai) = score(other)
           /\ IF tie_break = "first"
              THEN LexBefore(Range(ai.selection), Range(other.selection))
              ELSE LexBefore(Range(other.selection), Range(ai.selection))

\* Variant of query_directed_loop: each round's codeword replaces the ones
\* collected so far.
RECURSIVE query_directed_loop_keep_last(_, _, _)
query_directed_loop_keep_last(heap, hashes, left) ==
    IF left = 0 THEN Ok(hashes)
    ELSE IF heap = {} THEN Err("Failed")
    ELSE LET ai == heap_pop(heap)
             a_s == shift(ai)
             a_e == expand(ai)
             pushed == (heap \ {ai})
                       \cup (IF a_s.ok THEN {a_s.val} ELSE {})
                       \cup (IF a_e.ok THEN {a_e.val} ELSE {})
         IN query_directed_loop_keep_last(pushed, <<gen_hash(ai)>>, left - 1)

\* Variant of query_directed_round: the popped state's codeword is dropped.
query_directed_round_no_hash(heap, hashes) ==
    [ai |-> heap_pop(heap), heap |-> heap \ {heap_pop(heap)}, hashes |-> hashes]

\* one round of the for loop on a heap that is not empty: the state popped,
\* the heap with its successors pushed, and the codewords with its own added
query_directed_round(heap, hashes) ==
    LET ai == heap_pop(heap)
        a_s == shift(ai)
        a_e == expand(ai)
        pushed == (heap \ {ai})
                  \cup (IF a_s.ok THEN {a_s.val} ELSE {})
                  \cup (IF a_e.ok THEN {a_e.val} ELSE {})
    IN [ai |-> ai, heap |-> pushed, hashes |-> Append(hashes, gen_hash(ai))]

\* Algorithm 1: the for loop of query_directed_probe with left rounds to go
RECURSIVE query_directed_loop(_, _, _)
query_directed_loop(heap, hashes, left) ==
    IF left = 0 THEN Ok(hashes)
    ELSE IF heap = {} THEN Err("Failed")
    ELSE LET next(r) == query_directed_loop(r.heap, r.hashes, left - 1)
         IN next(query_directed_round(heap, hashes))

\* the perturb state a0 that query_directed_probe pushes before its loop
first_perturb_state(l2, q) ==
    LET hash == hash_vec_query(l2, q)
        xi == distance_to_bound(l2, q, hash)
        switchpoint == Len(xi[1])
        distances == xi[1] \o xi[2]
        z == argsort(distances)
    IN PerturbState_new(z, distances, switchpoint, hash)

\* L2::query_directed_probe
query_directed_probe(l2, q, budget_given) ==
    query_directed_loop({first_perturb_state(l2, q)}, <<hash_vec_query(l2, q)>>,
                        budget_given)

-----------------------------------------------------------------------------
(* lsh/lsh.rs: the engine.  Each operator is the body of the method after   *)
(* its validation and after hash_tables was taken: it yields the new value  *)
(* of self.hash_tables (None when the method returned early, before         *)
(* self.hash_tables.replace(ht)) and the method's Result.  A query borrows  *)
(* the backend and yields it as the call left it.                           *)

\* a constructor that always uses the hashers it generated
lsh_from_lsh_regenerate(L, only_index, generated, file) ==
    LET stored_hs == store_hashers(HashTables_new(L, only_index, file), generated)
    IN [hashers |-> generated, hash_tables |-> Some(stored_hs.ht), panic |-> FALSE]

\* the backend opened on file and the hashers the new index uses: the
\* generated ones when the backend stored them, the loaded ones otherwise
lsh_from_lsh(L, only_index, generated, file) ==
    LET stored_hs == store_hashers(HashTables_new(L, only_index, file), generated)
        loaded == load_hashers(stored_hs.ht)
    IN [hashers |-> IF stored_hs.res.ok \/ ~loaded.ok THEN generated ELSE loaded.val,
        hash_tables |-> Some(stored_hs.ht),
        panic |-> ~stored_hs.res.ok /\ ~loaded.ok]

validate_vec(v) == Len(v) = dim

\* for (i, proj) in hashers.iter().enumerate() { idx = ht.put(hash, &v, i)?; }
RECURSIVE store_vec_loop(_, _, _, _)
store_vec_loop(ht, v, i, idx) ==
    IF i = n_hash_tables THEN [ht |-> Some(ht), res |-> Ok(idx)]
    ELSE LET r == put(ht, hash_vec_put(hashers[i], v), v, i)
         IN IF ~r.res.ok THEN [ht |-> None, res |-> r.res]
            ELSE store_vec_loop(r.ht, v, i + 1, r.res.val)

store_vec(ht, v) == store_vec_loop(ht, v, 0, 0)

\* the inner loop of store_vecs: every vector of the batch into table i
RECURSIVE store_vecs_inner(_, _, _, _, _)
store_vecs_inner(ht, vs, i, j, insert_idx_acc) ==
    IF j > Len(vs) THEN [ht |-> ht, res |-> Ok(insert_idx_acc)]
    ELSE LET r == put(ht, hash_vec_put(hashers[i], vs[j]), vs[j], i)
         IN IF ~r.res.ok THEN [ht |-> None, res |-> r.res]
            ELSE store_vecs_inner(r.ht, vs, i, j + 1,
                                  IF i = 0 THEN Append(insert_idx_acc, r.res.val)
                                  ELSE insert_idx_acc)

\* the outer loop of store_vecs: table after table
RECURSIVE store_vecs_outer(_, _, _, _)
store_vecs_outer(ht, vs, i, insert_idx_acc) ==
    IF i = n_hash_tables THEN [ht |-> Some(ht), res |-> Ok(insert_idx_acc)]
    ELSE LET r == store_vecs_inner(ht, vs, i, 1, insert_idx_acc)
         IN IF ~r.res.ok THEN r
            ELSE store_vecs_outer(r.ht, vs, i + 1, r.res.val)

store_vecs(ht, vs) == store_vecs_outer(ht, vs, 0, <<>>)

RECURSIVE update_by_idx_loop(_, _, _, _, _)
update_by_idx_loop(ht, idx, new_v, old_v, i) ==
    IF i = n_hash_tables THEN [ht |-> Some(ht), res |-> Ok(0)]
    ELSE LET new_hash == hash_vec_put(hashers[i], new_v)
             old_hash == hash_vec_put(hashers[i], old_v)
             r == backend_update_by_idx(ht, old_hash, new_hash, idx, i)
         IN IF ~r.res.ok THEN [ht |-> None, res |-> r.res]
            ELSE update_by_idx_loop(r.ht, idx, new_v, old_v, i + 1)

update_by_idx(ht, idx, new_v, old_v) == update_by_idx_loop(ht, idx, new_v, old_v, 0)

\* ht.delete(&hash, v, i).unwrap_or_default(); self.hash_tables = Some(ht)
RECURSIVE delete_vec_loop(_, _, _)
delete_vec_loop(ht, v, i) ==
    IF i = n_hash_tables THEN [ht |-> Some(ht), res |-> Ok(0)]
    ELSE delete_vec_loop(delete(ht, hash_vec_query(hashers[i], v), v, i).ht, v, i + 1)

delete_vec(ht, v) == delete_vec_loop(ht, v, 0)

\* Variant of process_bucket_union_result: NotFound is passed on as an error.
process_bucket_union_result_strict(ht, hash, hash_table_idx, bucket_union) ==
    LET r == backend_query_bucket(ht, hash, hash_table_idx)
    IN IF r.res.ok THEN [ht |-> r.ht, res |-> Ok(bucket_union \cup r.res.val)]
       ELSE [ht |-> r.ht, res |-> r.res]

process_bucket_union_result(ht, hash, hash_table_idx, bucket_union) ==
    LET matched(r) ==
            CASE r.res.ok -> [ht |-> r.ht, res |-> Ok(bucket_union \cup r.res.val)]
              [] r.res.err = "NotFound" -> [ht |-> r.ht, res |-> Ok(bucket_union)]
              [] OTHER -> [ht |-> r.ht, res |-> r.res]
    IN matched(backend_query_bucket(ht, hash, hash_table_idx))

RECURSIVE query_bucket_union_loop(_, _, _, _)
query_bucket_union_loop(ht, v, i, bucket_union) ==
    IF i = n_hash_tables THEN [ht |-> ht, res |-> Ok(bucket_union)]
    ELSE LET next(r) == IF ~r.res.ok THEN r
                        ELSE query_bucket_union_loop(r.ht, v, i + 1, r.res.val)
         IN next(process_bucket_union_result(ht, hash_vec_query(hashers[i], v), i,
                                             bucket_union))

\* the codewords probed in table i under a budget: Ok(hashes), the probe's
\* error, or the abort of step_wise_probing
probe_hashes(i, v, budget_given) ==
    IF as_query_directed_probe
    THEN query_directed_probe(hashers[i], v, budget_given)
    ELSE step_wise_probe(hashers[i], v, budget_given, n_projections)

\* for hash in hashes { self.process_bucket_union_result(&hash, i, &mut bucket_union)? }
RECURSIVE probe_table_loop(_, _, _, _, _)
probe_table_loop(ht, hashes, k, i, bucket_union) ==
    IF k > Len(hashes) THEN [ht |-> ht, res |-> Ok(bucket_union)]
    ELSE LET next(r) == IF ~r.res.ok THEN r
                        ELSE probe_table_loop(r.ht, hashes, k + 1, i, r.res.val)
         IN next(process_bucket_union_result(ht, hashes[k], i, bucket_union))

\* for (i, hasher) in self.hashers.iter().enumerate() { ... }
RECURSIVE multi_probe_loop(_, _, _, _, _)
multi_probe_loop(ht, v, i, bucket_union, budget_given) ==
    IF i = n_hash_tables THEN [ht |-> ht, res |-> Ok(bucket_union)]
    ELSE LET next(r) == IF ~r.res.ok THEN r
                        ELSE multi_probe_loop(r.ht, v, i + 1, r.res.val, budget_given)
             probed(hashes) ==
                 IF ~hashes.ok THEN [ht |-> ht, res |-> Err(hashes.err)]
                 ELSE next(probe_table_loop(ht, hashes.val, 1, i, bucket_union))
         IN probed(probe_hashes(i, v, budget_given))

\* multi_probe_bucket_union with self._multi_probe_budget = budget_given; a
\* family with neither capability ends in unimplemented!()
multi_probe_under(ht, v, budget_given) ==
    IF as_query_directed_probe \/ as_step_wise_probe
    THEN multi_probe_loop(ht, v, 0, {}, budget_given)
    ELSE [ht |-> ht, res |-> Err("panic")]

multi_probe_bucket_union(ht, v) == multi_probe_under(ht, v, multi_probe_budget)

\* the union over the tables of the bucket under the query codeword
single_probe_bucket_union(ht, v) == query_bucket_union_loop(ht, v, 0, {})

query_bucket_union(ht, v) ==
    IF multi_probe THEN multi_probe_bucket_union(ht, v)
    ELSE single_probe_bucket_union(ht, v)

\* bucket_union.iter().copied().collect(): the ids in the set's iteration order
query_bucket_ids(ht, v, order) ==
    LET collected(r) ==
            IF ~r.res.ok THEN r
            ELSE [ht |-> r.ht, res |-> Ok([k \in DOMAIN order |-> order[k]])]
    IN collected(query_bucket_union(ht, v))

\* the ids resolved to data points, in the set's iteration order
query_bucket(ht, v, order) ==
    LET resolved(r) ==
            IF ~r.res.ok THEN r
            ELSE LET points == [k \in DOMAIN order |-> idx_to_datapoint(r.ht, order[k])]
                 IN IF \E k \in DOMAIN points : ~points[k].ok
                    THEN LET bad == {k \in DOMAIN points : ~points[k].ok}
                             first == CHOOSE k \in bad : \A j \in bad : k <= j
                         IN [ht |-> r.ht, res |-> Err(points[first].err)]
                    ELSE [ht |-> r.ht,
                          res |-> Ok([k \in DOMAIN points |-> points[k].val])]
    IN IF only_index_storage
       THEN [ht |-> ht, res |-> Err("Failed")]
       ELSE resolved(query_bucket_union(ht, v))

\* the id set a query for v collects (empty when the query fails)
UnionOf(ht, v) ==
    LET ids(r) == IF r.res.ok THEN r.res.val ELSE {}
    IN ids(query_bucket_union(ht, v))

\* self.query_bucket_ids(v) as the batch methods call it, validation included
query_one(ht, v, order) ==
    IF ~validate_vec(v) THEN [ht |-> ht, res |-> Err("Failed")]
    ELSE query_bucket_ids(ht, v, order)

\* vs.iter().map(|v| self.query_bucket_ids(v)).collect(): the entries in
\* input order, or the first error, after which no further input is queried
RECURSIVE query_bucket_ids_batch_from(_, _, _, _, _)
query_bucket_ids_batch_from(ht, vs, orders, j, acc) ==
    IF j > Len(vs) THEN [ht |-> ht, res |-> Ok(acc)]
    ELSE LET r == query_one(ht, vs[j], orders[j])
         IN IF ~r.res.ok THEN r
            ELSE query_bucket_ids_batch_from(r.ht, vs, orders, j + 1,
                                             Append(acc, r.res.val))

query_bucket_ids_batch(ht, vs, orders) == query_bucket_ids_batch_from(ht, vs, orders, 1, <<>>)

\* a collect that hands out the entries in the order the workers finished
collect_as_finished(done, finished) == [k \in DOMAIN finished |-> done[finished[k]].ids]

\* into_par_iter().map(..).collect() into Ok: the entries in input order,
\* whatever order the workers finished in
collect(done, finished) == [j \in DOMAIN done |-> done[j].ids]

\* LSH::commit and LSH::init_transaction of an SQL-backed index
commit(ht) == SqlTable_commit(ht)

init_transaction(ht) == SqlTable_init_transaction(ht)

-----------------------------------------------------------------------------
(* The calls on one index, each a whole method of LSH. *)

NoCall ==
    [op |-> "none", ok |-> TRUE, v |-> <<>>, w |-> <<>>, vs |-> <<>>, id |-> 0,
     ids |-> <<>>, points |-> <<>>, batch |-> <<>>, hashes |-> <<>>, perturbs |-> <<>>,
     budget |-> 0, pre_counter |-> 0,
     pre_ok |-> FALSE, pre_gone |-> FALSE, pre_ht |-> None]

\* IntermediatBlob before anything was serialized into it
NoBlob == [hash_tables |-> None, hashers |-> <<>>, n_hash_tables |-> 0,
           n_projections |-> 0, dim |-> 0]

\* no dump was written; beside the blob, dump_file keeps the settings of the
\* index that wrote it and whether an index loaded it
NoDump == [some |-> FALSE, loaded |-> FALSE, blob |-> NoBlob,
           only_index_storage |-> FALSE, multi_probe |-> FALSE,
           multi_probe_budget |-> 0]

\* no parallel batch is running
NoPar == [active |-> FALSE, vs |-> <<>>, done |-> <<>>, finished |-> <<>>]

\* no query_directed_probe call is running
NoProbe == [active |-> FALSE, t |-> 0, q |-> <<>>, budget |-> 0, left |-> 0, heap |-> {},
            hashes |-> <<>>, popped |-> <<>>]

\* the call aborted the process: unwrap() on None, or an index out of bounds
Abort(op, v, vs) ==
    /\ panicked' = TRUE
    /\ last' = [NoCall EXCEPT !.op = op, !.ok = FALSE, !.v = v, !.vs = vs]
    /\ UNCHANGED <<hash_tables, history>>

\* validate_vec(v)? returned the error before anything was touched
Rejected(op, v, vs) ==
    /\ last' = [NoCall EXCEPT !.op = op, !.ok = FALSE, !.v = v, !.vs = vs]
    /\ UNCHANGED <<hash_tables, panicked, history>>

\* what every index starts from: nothing called, nothing stored, no fault
Untouched ==
    /\ panicked = FALSE
    /\ last = NoCall
    /\ stored = {}
    /\ fresh = {}
    /\ live = {}
    /\ updated = FALSE
    /\ deleted = FALSE
    /\ gone = {}
    /\ n_inserted = 0
    /\ n_ops = 0
    /\ sql_fault = FALSE
    /\ committed_stored = {}
    /\ dump_file = NoDump
    /\ par = NoPar
    /\ reopened = [times |-> 0, other_seed |-> FALSE]
    /\ probe = NoProbe

\* LSH::new(n_projections, n_hash_tables, dim), the builder calls, and
\* srp() / l2(r) / mips(r, U, m) on a database file that does not exist yet
Built ==
    \E generated \in [0 .. n_hash_tables - 1 -> GeneratedHashers(family, n_projections)] :
        LET lsh == lsh_from_lsh(n_hash_tables, only_index_storage, generated,
                                NewFile(n_hash_tables))
        IN /\ hashers = lsh.hashers
           /\ hash_tables = lsh.hash_tables

Init ==
    /\ Untouched
    /\ backend \in {"mem", "sql"}
    /\ family = "srp"
    /\ n_hash_tables \in 1 .. MaxL
    /\ n_projections = 1
    /\ dim = 2
    /\ only_index_storage \in BOOLEAN
    /\ multi_probe = FALSE
    /\ multi_probe_budget = 16
    /\ build = "release"
    /\ tie_break = "first"
    /\ budget = MaxOps
    /\ Built

StoreVec(v) ==
    /\ ~panicked
    /\ n_ops < budget
    /\ UNCHANGED config
    /\ IF ~validate_vec(v) THEN Rejected("store_vec", v, <<>>)
       ELSE IF ~hash_tables.some \/ hash_vec_put_panics(v)
       THEN Abort("store_vec", v, <<>>)
       ELSE LET r == store_vec(hash_tables.val, v)
                got == IF r.res.ok
                       THEN {[v |-> v, id |-> r.res.val, by |-> "store_vec"]}
                       ELSE {}
            IN /\ hash_tables' = r.ht
               /\ last' = [NoCall EXCEPT !.op = "store_vec", !.ok = r.res.ok, !.v = v,
                                         !.id = r.res.val,
                                         !.pre_counter = hash_tables.val.counter]
               /\ stored' = stored \cup got
               /\ fresh' = fresh \cup got
               /\ live' = live \cup got
               /\ gone' = gone \ {v}
               /\ n_inserted' = n_inserted + Cardinality(got)
               /\ n_ops' = n_ops + 1
               /\ UNCHANGED <<panicked, updated, deleted>>

\* store_vecs and store_array run the same loops over the same backend calls.
StoreVecs(vs) ==
    /\ ~panicked
    /\ n_ops + Len(vs) <= budget
    /\ UNCHANGED config
    /\ IF Len(vs) = 0 THEN Abort("store_vecs", <<>>, vs)
       ELSE IF ~validate_vec(vs[1]) THEN Rejected("store_vecs", <<>>, vs)
       ELSE IF ~hash_tables.some \/ \E j \in 1 .. Len(vs) : hash_vec_put_panics(vs[j])
       THEN Abort("store_vecs", <<>>, vs)
       ELSE LET r == store_vecs(hash_tables.val, vs)
                got == IF r.res.ok
                       THEN {[v |-> vs[j], id |-> r.res.val[j], by |-> "store_vecs"] :
                                j \in 1 .. Len(vs)}
                       ELSE {}
            IN /\ hash_tables' = r.ht
               /\ last' = [NoCall EXCEPT !.op = "store_vecs", !.ok = r.res.ok, !.vs = vs,
                                         !.ids = IF r.res.ok THEN r.res.val ELSE <<>>,
                                         !.pre_counter = hash_tables.val.counter]
               /\ stored' = stored \cup got
               /\ fresh' = fresh \cup got
               /\ live' = live \cup got
               /\ gone' = gone \ Range(vs)
               /\ n_inserted' = n_inserted + (IF r.res.ok THEN Len(vs) ELSE 0)
               /\ n_ops' = n_ops + Len(vs)
               /\ UNCHANGED <<panicked, updated, deleted>>

UpdateByIdx(idx, new_v, old_v) ==
    /\ ~panicked
    /\ n_ops < budget
    /\ UNCHANGED config
    /\ IF ~hash_tables.some \/ hash_vec_put_panics(new_v) \/ hash_vec_put_panics(old_v)
       THEN Abort("update_by_idx", new_v, <<>>)
       ELSE LET r == update_by_idx(hash_tables.val, idx, new_v, old_v)
            IN /\ hash_tables' = r.ht
               /\ last' = [NoCall EXCEPT !.op = "update_by_idx", !.ok = r.res.ok,
                                         !.id = idx, !.v = new_v, !.w = old_v,
                                         !.pre_ok = [v |-> old_v, id |-> idx,
                                                     by |-> "store_vec"] \in live]
               /\ fresh' = {}
               /\ live' = {x \in live : x.id # idx}
               /\ gone' = gone \ {new_v}
               /\ updated' = TRUE
               /\ n_ops' = n_ops + 1
               /\ UNCHANGED <<panicked, stored, deleted, n_inserted>>

DeleteVec(v) ==
    /\ ~panicked
    /\ n_ops < budget
    /\ UNCHANGED config
    /\ IF ~validate_vec(v) THEN Rejected("delete_vec", v, <<>>)
       ELSE IF ~hash_tables.some THEN Abort("delete_vec", v, <<>>)
       ELSE LET r == delete_vec(hash_tables.val, v)
                named == {x.id : x \in {y \in live : y.v = v}}
            IN /\ hash_tables' = r.ht
               /\ last' = [NoCall EXCEPT !.op = "delete_vec", !.ok = r.res.ok, !.v = v,
                                         !.pre_gone = v \in gone,
                                         !.pre_ht = hash_tables]
               /\ fresh' = {}
               /\ live' = {x \in live : x.id \notin named}
               /\ gone' = gone \cup {v}
               /\ deleted' = TRUE
               /\ n_ops' = n_ops + 1
               /\ UNCHANGED <<panicked, stored, updated, n_inserted>>

QueryBucketIds(v) ==
    /\ ~panicked
    /\ UNCHANGED config
    /\ IF ~validate_vec(v) THEN Rejected("query_bucket_ids", v, <<>>)
       ELSE IF ~hash_tables.some THEN Abort("query_bucket_ids", v, <<>>)
       ELSE \E order \in Orders(UnionOf(hash_tables.val, v)) :
            \E r \in {query_bucket_ids(hash_tables.val, v, order)} :
               IF ~r.res.ok /\ r.res.err = "panic"
               THEN Abort("query_bucket_ids", v, <<>>)
               ELSE /\ hash_tables' = Some(r.ht)
                    /\ last' = [NoCall EXCEPT !.op = "query_bucket_ids",
                                              !.ok = r.res.ok, !.v = v,
                                              !.ids = IF r.res.ok THEN r.res.val
                                                      ELSE <<>>]
                    /\ UNCHANGED <<panicked, history>>

QueryBucket(v) ==
    /\ ~panicked
    /\ UNCHANGED config
    /\ IF ~validate_vec(v) \/ only_index_storage THEN Rejected("query_bucket", v, <<>>)
       ELSE IF ~hash_tables.some THEN Abort("query_bucket", v, <<>>)
       ELSE \E order \in Orders(UnionOf(hash_tables.val, v)) :
            \E r \in {query_bucket(hash_tables.val, v, order)} :
               IF ~r.res.ok /\ r.res.err = "panic" THEN Abort("query_bucket", v, <<>>)
               ELSE /\ hash_tables' = Some(r.ht)
                    /\ last' = [NoCall EXCEPT !.op = "query_bucket", !.ok = r.res.ok,
                                              !.v = v,
                                              !.points = IF r.res.ok THEN r.res.val
                                                         ELSE <<>>]
                    /\ UNCHANGED <<panicked, history>>

Next ==
    \/ \E v \in Vectors \cup {BadVector} : StoreVec(v)
    \/ \E vs \in SeqsUpTo(Vectors, MaxBatch) \cup MisshapenBatches : StoreVecs(vs)
    \/ \E idx \in Ids, new_v \in Vectors, old_v \in Vectors : UpdateByIdx(idx, new_v, old_v)
    \/ \E v \in Vectors \cup {BadVector} : DeleteVec(v)
    \/ \E v \in Vectors \cup {BadVector} : QueryBucketIds(v)
    \/ \E v \in Vectors \cup {BadVector} : QueryBucket(v)

Spec == Init /\ [][Next]_vars

\* The in-memory backend under store_vec, delete_vec and query_bucket_ids
\* calls only, which leaves room for one more call.
InitDelete ==
    /\ Untouched
    /\ backend = "mem"
    /\ family = "srp"
    /\ n_hash_tables \in 1 .. MaxL
    /\ n_projections = 1
    /\ dim = 2
    /\ only_index_storage \in BOOLEAN
    /\ multi_probe = FALSE
    /\ multi_probe_budget = 16
    /\ build = "release"
    /\ tie_break = "first"
    /\ budget = MaxOps + 1
    /\ Built

NextDelete ==
    \/ \E v \in Vectors \cup {BadVector} : StoreVec(v)
    \/ \E v \in Vectors \cup {BadVector} : DeleteVec(v)
    \/ \E v \in Vectors \cup {BadVector} : QueryBucketIds(v)

SpecDelete == InitDelete /\ [][NextDelete]_vars

-----------------------------------------------------------------------------
(* Multi-probe querying: in-memory indexes of the three families with hash  *)
(* length 1 .. MaxK, under both builds and both orders of equal scores.     *)
(* A query without multi-probe is a query before the first multi_probe call. *)

\* LSH::multi_probe(budget)
MultiProbe(b) ==
    /\ ~panicked
    /\ multi_probe' = TRUE
    /\ multi_probe_budget' = b
    /\ last' = [NoCall EXCEPT !.op = "multi_probe"]
    /\ UNCHANGED <<shape, hashers, only_index_storage, hash_tables, panicked, history,
                   surroundings>>

\* LSH::fit(vs) of a MIPS index
Fit(vs) ==
    /\ ~panicked
    /\ family = "mips"
    /\ hashers' = [t \in DOMAIN hashers |-> fit(hashers[t], vs)]
    /\ last' = [NoCall EXCEPT !.op = "fit", !.vs = vs]
    /\ UNCHANGED <<shape, only_index_storage, multi_probe, multi_probe_budget,
                   hash_tables, panicked, history, surroundings>>

InitProbe ==
    /\ Untouched
    /\ backend = "mem"
    /\ family \in {"srp", "l2", "mips"}
    /\ n_hash_tables \in 1 .. MaxL
    /\ n_projections \in 1 .. MaxK
    /\ dim = 2
    /\ only_index_storage = TRUE
    /\ multi_probe = FALSE
    /\ multi_probe_budget = 16
    \* the build matters to step-wise probing only, the order of equal scores
    \* to query-directed probing only
    /\ build \in IF family = "srp" THEN {"debug", "release"} ELSE {"release"}
    /\ tie_break \in IF family = "l2" THEN {"first", "last"} ELSE {"first"}
    /\ budget = MaxOps - 1
    /\ Built

NextProbe ==
    \/ \E v \in Vectors : StoreVec(v)
    \/ \E vs \in {<<>>, <<<<1, 0>>, <<0, 1>>>>} : Fit(vs)
    \/ \E b \in Budgets : MultiProbe(b)
    \/ \E v \in Vectors \cup {BadVector} : QueryBucketIds(v)

SpecProbe == InitProbe /\ [][NextProbe]_vars

-----------------------------------------------------------------------------
(* The SQL backend on a storage layer that may fail the statements it is    *)
(* handed (disk full, file locked, table dropped).                          *)

\* the storage layer starts or stops failing
SetFault(f) ==
    /\ ~panicked
    /\ sql_fault # f
    /\ sql_fault' = f
    /\ last' = [NoCall EXCEPT !.op = "fault"]
    /\ UNCHANGED <<shape, hashers, only_index_storage, multi_probe, multi_probe_budget,
                   hash_tables, panicked, history, committed_stored, dump_file, par,
                   reopened, probe>>

InitFault ==
    /\ Untouched
    /\ backend = "sql"
    /\ family = "srp"
    /\ n_hash_tables \in 1 .. MaxL
    /\ n_projections = 1
    /\ dim = 2
    /\ only_index_storage \in BOOLEAN
    /\ multi_probe = FALSE
    /\ multi_probe_budget = 16
    /\ build = "release"
    /\ tie_break = "first"
    /\ budget = MaxOps
    /\ Built

NextFault ==
    \/ \E f \in BOOLEAN : SetFault(f)
    \/ \E v \in Vectors : StoreVec(v)
    \/ \E vs \in SeqsUpTo(Vectors, MaxBatch) : StoreVecs(vs)
    \/ \E v \in Vectors : QueryBucketIds(v)

SpecFault == InitFault /\ [][NextFault]_vars

-----------------------------------------------------------------------------
(* The SQL backend with its transactions and its database file, on a        *)
(* storage layer that does not fail.                                        *)

\* LSH::commit()
Commit ==
    /\ ~panicked
    /\ backend = "sql"
    /\ IF ~hash_tables.some
       THEN /\ panicked' = TRUE
            /\ last' = [NoCall EXCEPT !.op = "commit", !.ok = FALSE]
            /\ UNCHANGED <<hash_tables, committed_stored>>
       ELSE LET r == commit(hash_tables.val)
            IN /\ hash_tables' = Some(r.ht)
               /\ last' = [NoCall EXCEPT !.op = "commit", !.ok = r.res.ok]
               /\ committed_stored' = IF r.res.ok THEN stored ELSE committed_stored
               /\ UNCHANGED panicked
    /\ UNCHANGED <<shape, hashers, only_index_storage, multi_probe, multi_probe_budget,
                   history, sql_fault, dump_file, par, reopened, probe>>

\* LSH::init_transaction()
InitTransaction ==
    /\ ~panicked
    /\ backend = "sql"
    /\ IF ~hash_tables.some
       THEN /\ panicked' = TRUE
            /\ last' = [NoCall EXCEPT !.op = "init_transaction", !.ok = FALSE]
            /\ UNCHANGED hash_tables
       ELSE LET r == init_transaction(hash_tables.val)
            IN /\ hash_tables' = Some(r.ht)
               /\ last' = [NoCall EXCEPT !.op = "init_transaction", !.ok = r.res.ok]
               /\ UNCHANGED panicked
    /\ UNCHANGED <<shape, hashers, only_index_storage, multi_probe, multi_probe_budget,
                   history, surroundings>>

\* the index is dropped and LSH::new(K, L, dim).seed(s).srp() is called on the
\* same database file: generated are the hashers of the new seed, kept says
\* whether the rows of a transaction left open reached the file
Reopen(generated, kept) ==
    /\ ~panicked
    /\ backend = "sql"
    /\ hash_tables.some
    /\ reopened.times < MaxReopens
    /\ LET lsh == lsh_from_lsh(n_hash_tables, only_index_storage, generated,
                               FileAfterDrop(hash_tables.val, kept))
       IN /\ hashers' = lsh.hashers
          /\ hash_tables' = lsh.hash_tables
          /\ panicked' = lsh.panic
          /\ last' = [NoCall EXCEPT !.op = "reopen", !.ok = ~lsh.panic]
          /\ reopened' = [times |-> reopened.times + 1,
                          other_seed |-> generated # hashers]
    \* of the inserts made so far the new index answers for the committed ones
    /\ stored' = committed_stored
    /\ fresh' = {}
    /\ live' = committed_stored
    /\ UNCHANGED <<shape, only_index_storage, multi_probe, multi_probe_budget, updated,
                   deleted, gone, n_inserted, n_ops, sql_fault, committed_stored,
                   dump_file, par, probe>>

InitSql ==
    /\ Untouched
    /\ backend = "sql"
    /\ family = "srp"
    /\ n_hash_tables \in 1 .. MaxL
    /\ n_projections = 1
    /\ dim = 2
    /\ only_index_storage = FALSE
    /\ multi_probe = FALSE
    /\ multi_probe_budget = 16
    /\ build = "release"
    /\ tie_break = "first"
    /\ budget = MaxOps
    /\ Built

NextSql ==
    \/ \E v \in Vectors : StoreVec(v)
    \/ Commit
    \/ InitTransaction
    \/ \E v \in Vectors \cup {BadVector} : QueryBucketIds(v)
    \/ \E generated \in [0 .. n_hash_tables - 1 -> GeneratedHashers(family, n_projections)],
          kept \in BOOLEAN : Reopen(generated, kept)

SpecSql == InitSql /\ [][NextSql]_vars

-----------------------------------------------------------------------------
(* dump and load of an in-memory index: index A stores and dumps, then      *)
(* index B, built with settings of its own, loads the file and is queried.  *)

\* LSH::dump(path)
Dump ==
    /\ ~panicked
    /\ backend = "mem"
    /\ ~dump_file.loaded
    /\ dump_file' = [some |-> TRUE, loaded |-> FALSE,
                     blob |-> [hash_tables |-> hash_tables, hashers |-> hashers,
                               n_hash_tables |-> n_hash_tables,
                               n_projections |-> n_projections, dim |-> dim],
                     only_index_storage |-> only_index_storage,
                     multi_probe |-> multi_probe,
                     multi_probe_budget |-> multi_probe_budget]
    /\ last' = [NoCall EXCEPT !.op = "dump"]
    /\ UNCHANGED <<shape, hashers, only_index_storage, multi_probe, multi_probe_budget,
                   hash_tables, panicked, history, sql_fault, committed_stored, par,
                   reopened, probe>>

\* the builder settings an index may be given before it loads a file
BuilderSettings ==
    {[only_index |-> o, multi_probe |-> FALSE, budget |-> 16] : o \in BOOLEAN}
        \cup {[only_index |-> o, multi_probe |-> TRUE, budget |-> b] :
                 o \in BOOLEAN, b \in 0 .. 1}

\* LSH::load(path) on an index B built with the settings b: the fields of the
\* blob replace B's, the other fields of B stay
Load(b) ==
    /\ ~panicked
    /\ backend = "mem"
    /\ ~dump_file.loaded
    /\ IF ~dump_file.some
       THEN /\ last' = [NoCall EXCEPT !.op = "load", !.ok = FALSE]
            /\ UNCHANGED <<hashers, hash_tables, n_hash_tables, n_projections, dim,
                           only_index_storage, multi_probe, multi_probe_budget,
                           dump_file>>
       ELSE /\ hashers' = dump_file.blob.hashers
            /\ hash_tables' = dump_file.blob.hash_tables
            /\ n_hash_tables' = dump_file.blob.n_hash_tables
            /\ n_projections' = dump_file.blob.n_projections
            /\ dim' = dump_file.blob.dim
            /\ only_index_storage' = b.only_index
            /\ multi_probe' = b.multi_probe
            /\ multi_probe_budget' = b.budget
            /\ dump_file' = [dump_file EXCEPT !.loaded = TRUE]
            /\ last' = [NoCall EXCEPT !.op = "load"]
    /\ UNCHANGED <<backend, family, build, tie_break, budget, panicked, history,
                   sql_fault, committed_stored, par, reopened, probe>>

InitDump ==
    /\ Untouched
    /\ backend = "mem"
    /\ family \in {"srp", "l2"}
    /\ n_hash_tables \in 1 .. MaxL
    /\ n_projections = 1
    /\ dim = 2
    /\ only_index_storage \in BOOLEAN
    /\ multi_probe = FALSE
    /\ multi_probe_budget = 16
    /\ build = "release"
    /\ tie_break = "first"
    /\ budget = MaxOps - 1
    /\ Built

\* nothing is stored into B once it has loaded the file
NextDump ==
    \/ \E v \in Vectors : ~dump_file.loaded /\ StoreVec(v)
    \/ Dump
    \/ \E b \in BuilderSettings : Load(b)
    \/ \E v \in Vectors \cup {BadVector} : QueryBucketIds(v)
    \/ \E v \in Vectors \cup {BadVector} : QueryBucket(v)

SpecDump == InitDump /\ [][NextDump]_vars

-----------------------------------------------------------------------------
(* Batch queries.  The sequential batch is one call; the parallel batch     *)
(* hands each input to a worker thread, and the workers run in any order.   *)
(* The call borrows the index, so no other call is made while it runs.  It  *)
(* needs a backend that is Sync, which SqlTable (a Cell and a Connection)   *)
(* is not.                                                                  *)

\* the iteration orders the id set of a query for v may be read in
OrdersFor(ht, v) == Orders(IF validate_vec(v) THEN UnionOf(ht, v) ELSE {})

\* one such order for each input of a batch
BatchOrders(ht, vs) ==
    {f \in [1 .. Len(vs) -> UNION {OrdersFor(ht, vs[j]) : j \in 1 .. Len(vs)}] :
        \A j \in 1 .. Len(vs) : f[j] \in OrdersFor(ht, vs[j])}

\* LSH::query_bucket_ids_batch(vs)
QueryBucketIdsBatch(vs) ==
    /\ ~panicked
    /\ ~par.active
    /\ UNCHANGED config
    /\ IF ~hash_tables.some /\ vs # <<>> /\ validate_vec(vs[1])
       THEN Abort("query_bucket_ids_batch", <<>>, vs)
       ELSE IF ~hash_tables.some
       THEN /\ last' = [NoCall EXCEPT !.op = "query_bucket_ids_batch",
                                      !.ok = (vs = <<>>), !.vs = vs]
            /\ UNCHANGED <<hash_tables, panicked, history>>
       ELSE \E orders \in BatchOrders(hash_tables.val, vs) :
            LET r == query_bucket_ids_batch(hash_tables.val, vs, orders)
            IN /\ hash_tables' = Some(r.ht)
               /\ last' = [NoCall EXCEPT !.op = "query_bucket_ids_batch",
                                         !.ok = r.res.ok, !.vs = vs,
                                         !.batch = IF r.res.ok THEN r.res.val ELSE <<>>]
               /\ UNCHANGED <<panicked, history>>

\* query_bucket_ids_batch_par(vs) is entered: no worker has run yet
ParStart(vs) ==
    /\ ~panicked
    /\ backend = "mem"
    /\ hash_tables.some
    /\ ~par.active
    /\ par' = [active |-> TRUE, vs |-> vs,
               done |-> [j \in 1 .. Len(vs) |-> [done |-> FALSE, ok |-> FALSE, ids |-> <<>>]],
               finished |-> <<>>]
    /\ last' = [NoCall EXCEPT !.op = "par_start", !.vs = vs]
    /\ UNCHANGED <<shape, hashers, only_index_storage, multi_probe, multi_probe_budget,
                   hash_tables, panicked, history, sql_fault, committed_stored,
                   dump_file, reopened, probe>>

\* a worker thread runs self.query_bucket_ids(vs[j])
ParWork(j) ==
    /\ ~panicked
    /\ par.active
    /\ j \in 1 .. Len(par.vs)
    /\ ~par.done[j].done
    /\ \E order \in OrdersFor(hash_tables.val, par.vs[j]) :
           LET r == query_one(hash_tables.val, par.vs[j], order)
           IN /\ hash_tables' = Some(r.ht)
              /\ par' = [par EXCEPT !.done[j] = [done |-> TRUE, ok |-> r.res.ok,
                                                 ids |-> IF r.res.ok THEN r.res.val
                                                         ELSE <<>>],
                                    !.finished = Append(@, j)]
    /\ UNCHANGED <<shape, hashers, only_index_storage, multi_probe, multi_probe_budget,
                   panicked, last, history, sql_fault, committed_stored, dump_file,
                   reopened, probe>>

\* collect() returns: every worker has finished, or one returned an error,
\* after which the inputs not yet taken up are skipped
ParCollect ==
    /\ ~panicked
    /\ par.active
    /\ \/ \A j \in DOMAIN par.done : par.done[j].done
       \/ \E j \in DOMAIN par.done : par.done[j].done /\ ~par.done[j].ok
    /\ LET all_ok == \A j \in DOMAIN par.done : par.done[j].done /\ par.done[j].ok
       IN last' = [NoCall EXCEPT !.op = "query_bucket_ids_batch_par", !.ok = all_ok,
                                 !.vs = par.vs,
                                 !.batch = IF all_ok THEN collect(par.done, par.finished)
                                           ELSE <<>>]
    /\ par' = [par EXCEPT !.active = FALSE]
    /\ UNCHANGED <<shape, hashers, only_index_storage, multi_probe, multi_probe_budget,
                   hash_tables, panicked, history, sql_fault, committed_stored,
                   dump_file, reopened, probe>>

InitBatch ==
    /\ Untouched
    /\ backend \in {"mem", "sql"}
    /\ family = "srp"
    /\ n_hash_tables \in 1 .. MaxL
    /\ n_projections = 1
    /\ dim = 2
    /\ only_index_storage = TRUE
    /\ multi_probe = FALSE
    /\ multi_probe_budget = 16
    /\ build = "release"
    /\ tie_break = "first"
    /\ budget = MaxOps - 1
    /\ Built

NextBatch ==
    \/ \E v \in Vectors : ~par.active /\ StoreVec(v)
    \/ \E vs \in SeqsUpTo(Vectors, MaxBatch) \cup MisshapenBatches : QueryBucketIdsBatch(vs)
    \/ \E vs \in SeqsUpTo(Vectors, MaxBatch) \cup MisshapenBatches : ParStart(vs)
    \/ \E j \in 1 .. MaxBatch : ParWork(j)
    \/ ParCollect

SpecBatch == InitBatch /\ [][NextBatch]_vars

-----------------------------------------------------------------------------
(* A MinHash index, built by minhash(), whose hasher is called on presence  *)
(* vectors of its dimension.                                                *)

\* hashers[t].hash_vec_query(v)
HashVecQuery(t, v) ==
    /\ ~panicked
    /\ t \in DOMAIN hashers
    /\ last' = [NoCall EXCEPT !.op = "hash_vec_query", !.id = t, !.v = v,
                              !.hashes = <<hash_vec_query(hashers[t], v)>>]
    /\ UNCHANGED <<shape, hashers, only_index_storage, multi_probe, multi_probe_budget,
                   hash_tables, panicked, history, surroundings>>

InitMinHash ==
    /\ Untouched
    /\ backend = "mem"
    /\ family = "minhash"
    /\ n_hash_tables = 1
    /\ n_projections \in 1 .. MaxK
    /\ dim \in 2 .. MaxDim
    /\ only_index_storage = TRUE
    /\ multi_probe = FALSE
    /\ multi_probe_budget = 16
    /\ build = "release"
    /\ tie_break = "first"
    /\ budget = MaxOps
    /\ Built

NextMinHash == \E t \in 0 .. n_hash_tables - 1, v \in PresenceVectors(dim) : HashVecQuery(t, v)

SpecMinHash == InitMinHash /\ [][NextMinHash]_vars

-----------------------------------------------------------------------------
(* Step-wise probing called on the hasher of an SRP index, as               *)
(* multi_probe_bucket_union calls it: hash_len is the index's K.            *)

\* hashers[t].step_wise_probe(q, b, n_projections): the call keeps the
\* perturbation vectors of step_wise_probing in probing_seq and returns the
\* codewords made from them, or aborts where step_wise_probing does
StepWiseProbe(t, q, b) ==
    /\ ~panicked
    /\ t \in DOMAIN hashers
    /\ as_step_wise_probe
    /\ LET probing_seq == step_wise_probing(n_projections, b, FALSE)
           a == step_wise_probe(hashers[t], q, b, n_projections)
       IN /\ panicked' = ~a.ok
          /\ last' = [NoCall EXCEPT !.op = "step_wise_probe", !.ok = a.ok, !.id = t,
                                    !.v = q, !.budget = b,
                                    !.perturbs = IF probing_seq.ok THEN probing_seq.val
                                                 ELSE <<>>,
                                    !.hashes = IF a.ok THEN a.val ELSE <<>>]
    /\ UNCHANGED <<shape, hashers, only_index_storage, multi_probe, multi_probe_budget,
                   hash_tables, history, surroundings>>

InitStepWise ==
    /\ Untouched
    /\ backend = "mem"
    /\ family = "srp"
    /\ n_hash_tables = 1
    /\ n_projections \in 1 .. MaxK
    /\ dim = 2
    /\ only_index_storage = TRUE
    /\ multi_probe = FALSE
    /\ multi_probe_budget = 16
    /\ build \in {"debug", "release"}
    /\ tie_break = "first"
    /\ budget = MaxOps
    /\ Built

NextStepWise ==
    \E t \in 0 .. n_hash_tables - 1, q \in Vectors, b \in Budgets : StepWiseProbe(t, q, b)

SpecStepWise == InitStepWise /\ [][NextStepWise]_vars

-----------------------------------------------------------------------------
(* Query-directed probing called on the hasher of an L2 index, round by     *)
(* round: the call is entered, each round of its for loop pops a perturb    *)
(* state, and the call returns.                                             *)

\* hashers[t].query_directed_probe(q, b) up to its for loop: the original
\* codeword is collected and a0 is on the heap
ProbeStart(t, q, b) ==
    /\ ~panicked
    /\ ~probe.active
    /\ t \in DOMAIN hashers
    /\ as_query_directed_probe
    /\ probe' = [active |-> TRUE, t |-> t, q |-> q, budget |-> b, left |-> b,
                 heap |-> {first_perturb_state(hashers[t], q)},
                 hashes |-> <<hash_vec_query(hashers[t], q)>>,
                 popped |-> <<>>]
    /\ last' = [NoCall EXCEPT !.op = "probe_start", !.id = t, !.v = q, !.budget = b]
    /\ UNCHANGED <<shape, hashers, only_index_storage, multi_probe, multi_probe_budget,
                   hash_tables, panicked, history, sql_fault, committed_stored,
                   dump_file, par, reopened>>

\* one round of the for loop: heap.pop(), the pushes of a_s and a_e, and
\* hashes.push(ai.gen_hash()); on an empty heap the call returns the error
ProbeRound ==
    /\ ~panicked
    /\ probe.active
    /\ probe.left > 0
    /\ IF probe.heap = {}
       THEN /\ probe' = [probe EXCEPT !.active = FALSE]
            /\ last' = [NoCall EXCEPT !.op = "query_directed_probe", !.ok = FALSE,
                                      !.id = probe.t, !.v = probe.q,
                                      !.budget = probe.budget]
       ELSE /\ \E r \in {query_directed_round(probe.heap, probe.hashes)} :
                   probe' = [probe EXCEPT !.heap = r.heap, !.hashes = r.hashes,
                                          !.left = @ - 1,
                                          !.popped = Append(@, r.ai)]
            /\ last' = [NoCall EXCEPT !.op = "probe_round", !.id = probe.t,
                                      !.v = probe.q, !.budget = probe.budget]
    /\ UNCHANGED <<shape, hashers, only_index_storage, multi_probe, multi_probe_budget,
                   hash_tables, panicked, history, sql_fault, committed_stored,
                   dump_file, par, reopened>>

\* the for loop is over: Ok(hashes)
ProbeReturn ==
    /\ ~panicked
    /\ probe.active
    /\ probe.left = 0
    /\ probe' = [probe EXCEPT !.active = FALSE]
    /\ last' = [NoCall EXCEPT !.op = "query_directed_probe", !.ok = TRUE,
                              !.id = probe.t, !.v = probe.q, !.budget = probe.budget,
                              !.hashes = probe.hashes]
    /\ UNCHANGED <<shape, hashers, only_index_storage, multi_probe, multi_probe_budget,
                   hash_tables, panicked, history, sql_fault, committed_stored,
                   dump_file, par, reopened>>

InitDirected ==
    /\ Untouched
    /\ backend = "mem"
    /\ family = "l2"
    /\ n_hash_tables = 1
    /\ n_projections \in 1 .. MaxK
    /\ dim = 2
    /\ only_index_storage = TRUE
    /\ multi_probe = FALSE
    /\ multi_probe_budget = 16
    /\ build = "release"
    /\ tie_break \in {"first", "last"}
    /\ budget = MaxOps
    /\ Built

NextDirected ==
    \/ \E t \in 0 .. n_hash_tables - 1, q \in Vectors, b \in Budgets : ProbeStart(t, q, b)
    \/ ProbeRound
    \/ ProbeReturn

SpecDirected == InitDirected /\ [][NextDirected]_vars

-----------------------------------------------------------------------------
(* What a state holds, read off the backend's fields and not through the    *)
(* query code.                                                              *)

Tables == 0 .. n_hash_tables - 1

\* the codewords that have a bucket in table t
Keys(ht, t) ==
    IF ht.kind = "mem" THEN DOMAIN ht.hash_tables[t]
    ELSE {x[1] : x \in BagToSet(ht.rows[t])}

\* the ids posted under hash in table t
BucketOf(ht, t, hash) ==
    IF ht.kind = "mem"
    THEN IF hash \in DOMAIN ht.hash_tables[t] THEN ht.hash_tables[t][hash] ELSE {}
    ELSE {x[2] : x \in {y \in BagToSet(ht.rows[t]) : y[1] = hash}}

\* the put codewords of a and b differ in every table
DifferEverywhere(a, b) ==
    \A t \in Tables : hash_vec_put(hashers[t], a) # hash_vec_put(hashers[t], b)

-----------------------------------------------------------------------------
(* The claims. *)

\* C1: after store_vec(v) returned id i, a later query_bucket_ids(v) on the
\* same index succeeds and its list contains i, as long as no delete_vec or
\* update_by_idx call came in between; whatever L, only_index, the backend
\* and the other stores before or after.
C1_StoredIdIsFound ==
    \A r \in fresh :
        (r.by = "store_vec" /\ last.op = "query_bucket_ids" /\ last.v = r.v)
            => (last.ok /\ r.id \in Range(last.ids))

\* a query that found the id of an earlier store_vec among several inserts
C1_Witness ==
    /\ last.op = "query_bucket_ids"
    /\ last.ok
    /\ n_inserted >= 2
    /\ \E r \in fresh : r.by = "store_vec" /\ r.v = last.v /\ r.id \in Range(last.ids)

\* C2: on an in-memory index that stores vectors, after store_vec(v)
\* succeeded, query_bucket(v) returns a list that contains a vector equal to
\* v, for every L >= 1 and whatever was stored before.
C2_SelfRetrieval ==
    \A r \in fresh :
        (/\ r.by = "store_vec"
         /\ last.op = "query_bucket"
         /\ last.v = r.v
         /\ backend = "mem"
         /\ ~only_index_storage)
            => (last.ok /\ r.v \in Range(last.points))

\* C3: from a fresh index, the n-th successful store_vec returns id n-1, and
\* the id counter has been incremented once per inserted vector; for every
\* L >= 1, both only_index settings and both backends.
C3_IdsCountUp ==
    (last.op = "store_vec" /\ last.ok /\ \A r \in stored : r.by = "store_vec")
        => (last.id = n_inserted - 1 /\ hash_tables.val.counter = n_inserted)

\* C4: after successful store_vec / store_vecs calls and no update or delete,
\* for every inserted vector v with assigned id i and every table t, the
\* bucket of t keyed by the put codeword of v contains i, and no other
\* bucket of t contains i.
C4_PostedOncePerTable ==
    (hash_tables.some /\ ~updated /\ ~deleted) =>
        \A r \in stored, t \in Tables :
            LET key == hash_vec_put(hashers[t], r.v)
            IN /\ r.id \in BucketOf(hash_tables.val, t, key)
               /\ \A h \in Keys(hash_tables.val, t) \ {key} :
                      r.id \notin BucketOf(hash_tables.val, t, h)

\* C5: store_vecs(vs) on a non-empty batch returns [c, c+1, ..., c+|vs|-1],
\* c the id counter before the call, and leaves the counter at c+|vs|.
C5_BatchIdsContiguous ==
    (last.op = "store_vecs" /\ last.ok) =>
        /\ last.ids = [j \in 1 .. Len(last.vs) |-> last.pre_counter + j - 1]
        /\ hash_tables.val.counter = last.pre_counter + Len(last.vs)

\* C6: on the in-memory backend, after every completed store_vec / store_vecs
\* call the vector store is as long as the id counter when only_index is
\* false, and empty when only_index is true.
C6_VecStoreTracksCounter ==
    (last.op \in {"store_vec", "store_vecs"} /\ last.ok /\ backend = "mem") =>
        IF only_index_storage
        THEN Len(hash_tables.val.vec_store) = 0
        ELSE Len(hash_tables.val.vec_store) = hash_tables.val.counter

\* C7: a query_bucket_ids(v) that comes back returns Ok with exactly the
\* union, over the tables, of the bucket held under the query codeword of v,
\* every id once; a table without that bucket contributes nothing and does
\* not fail the query.
C7_QueryIsBucketUnion ==
    (last.op = "query_bucket_ids" /\ validate_vec(last.v) /\ ~panicked) =>
        /\ last.ok
        /\ Range(last.ids) =
               UNION {BucketOf(hash_tables.val, t, hash_vec_query(hashers[t], last.v)) :
                         t \in Tables}
        /\ Len(last.ids) = Cardinality(Range(last.ids))

\* a query that returned two ids although one table had no bucket for v
C7_Witness ==
    /\ last.op = "query_bucket_ids"
    /\ last.ok
    /\ Len(last.ids) >= 2
    /\ backend = "mem"
    /\ \E t \in Tables :
           hash_vec_query(hashers[t], last.v) \notin Keys(hash_tables.val, t)

\* C8: on the in-memory backend, when id was returned by store_vec(old) and
\* no update or delete named it since, then after update_by_idx(id, new, old)
\* returned Ok a query for new finds id, and a query for old does not find id
\* when the codewords of old and new differ in every table.
C8_UpdateMovesId ==
    (last.op = "update_by_idx" /\ last.ok /\ last.pre_ok /\ backend = "mem") =>
        /\ last.id \in UnionOf(hash_tables.val, last.v)
        /\ DifferEverywhere(last.v, last.w) =>
               last.id \notin UnionOf(hash_tables.val, last.w)

\* an update on two tables that moved the id between different buckets
C8_Witness ==
    /\ last.op = "update_by_idx"
    /\ last.ok
    /\ last.pre_ok
    /\ n_hash_tables = 2
    /\ DifferEverywhere(last.v, last.w)
    /\ last.id \in UnionOf(hash_tables.val, last.v)
    /\ last.id \notin UnionOf(hash_tables.val, last.w)

\* C9: on an in-memory index that stores vectors, after delete_vec(v)
\* returned, no id that an earlier store_vec(v) returned is found by a query
\* for v, also when v was stored more than once.
C9_DeleteRemovesStoredIds ==
    (/\ last.op = "delete_vec"
     /\ last.ok
     /\ ~updated
     /\ backend = "mem"
     /\ ~only_index_storage) =>
        \A r \in stored :
            (r.by = "store_vec" /\ r.v = last.v)
                => r.id \notin UnionOf(hash_tables.val, last.v)

\* C10: on the in-memory backend, delete_vec(v) with a vector of length dim
\* always returns Ok; when v was never stored or was already deleted (and not
\* inserted again) it leaves every bucket, the vector store and the id
\* counter unchanged; and a second delete_vec(v) right after the first
\* changes nothing.
C10_DeleteIsIdempotent ==
    (last.op = "delete_vec" /\ validate_vec(last.v) /\ backend = "mem") =>
        /\ last.ok
        /\ ((\A r \in stored : r.v # last.v) \/ last.pre_gone) =>
               hash_tables = last.pre_ht
        /\ delete_vec(hash_tables.val, last.v).ht = hash_tables

\* the number of perturbations query-directed probing can produce: the
\* non-empty subsets of the 2K boundary distances
Perturbations == 2^(2 * n_projections) - 1

\* the id set of the last query equals the single-probe union
SameAsSingleProbe ==
    Range(last.ids) = single_probe_bucket_union(hash_tables.val, last.v).res.val

\* C11: with multi_probe(0), query_bucket_ids(v) returns the id set that the
\* same index state returns with multi-probe disabled, on SRP indexes and on
\* L2 indexes.
C11_BudgetZeroIsSingleProbe ==
    (/\ last.op = "query_bucket_ids"
     /\ validate_vec(last.v)
     /\ multi_probe
     /\ multi_probe_budget = 0
     /\ family \in {"srp", "l2"}) =>
        (last.ok /\ SameAsSingleProbe)

\* C12: for budgets b <= b' on the same index state and query, when both
\* multi-probe queries return Ok the id set under b is a subset of the id set
\* under b', on SRP and on L2 indexes.
C12_BudgetMonotone ==
    (/\ last.op = "query_bucket_ids"
     /\ last.ok
     /\ multi_probe
     /\ family \in {"srp", "l2"}) =>
        \A b \in {x \in Budgets : x <= multi_probe_budget} :
            LET smaller == multi_probe_under(hash_tables.val, last.v, b)
            IN smaller.res.ok => smaller.res.val \subseteq Range(last.ids)

\* a multi-probe query that found an id which a smaller budget does not find
C12_Witness ==
    /\ last.op = "query_bucket_ids"
    /\ last.ok
    /\ multi_probe
    /\ family \in {"srp", "l2"}
    /\ \E b \in {x \in Budgets : x < multi_probe_budget} :
           LET smaller == multi_probe_under(hash_tables.val, last.v, b)
           IN /\ smaller.res.ok
              /\ smaller.res.val # Range(last.ids)
              /\ smaller.res.val \subseteq Range(last.ids)

\* C13: query_directed_probe(q, budget) returns an error exactly when budget
\* exceeds the 2^(2K) - 1 perturbations, and budget + 1 codewords otherwise;
\* a multi-probe query_bucket_ids on an L2 index returns that error.
C13_ExhaustionIsAnError ==
    (/\ last.op = "query_bucket_ids"
     /\ validate_vec(last.v)
     /\ multi_probe
     /\ family = "l2") =>
        /\ ~panicked
        /\ last.ok <=> multi_probe_budget <= Perturbations
        /\ \A t \in DOMAIN hashers, b \in Budgets :
               LET probed == query_directed_probe(hashers[t], last.v, b)
               IN /\ probed.ok <=> b <= Perturbations
                  /\ probed.ok => Len(probed.val) = b + 1

\* a query on an L2 index of hash length 2 that failed with a budget of one
\* more than the 15 perturbations
C13_Witness ==
    /\ last.op = "query_bucket_ids"
    /\ validate_vec(last.v)
    /\ multi_probe
    /\ family = "l2"
    /\ n_projections = 2
    /\ multi_probe_budget = Perturbations + 1
    /\ ~last.ok
    /\ ~panicked
    /\ n_inserted >= 1

\* C14: with multi-probe enabled a query returns a result, by query-directed
\* probing on L2 and MIPS indexes and by step-wise probing on SRP indexes: no
\* family makes the query abort.
C14_ProbeReturnsAResult ==
    (last.op = "query_bucket_ids" /\ validate_vec(last.v) /\ multi_probe) => ~panicked

\* the last call was handed a vector whose length is not dim
WrongShape(call) ==
    IF call.op = "store_vecs"
    THEN \E j \in 1 .. Len(call.vs) : ~validate_vec(call.vs[j])
    ELSE ~validate_vec(call.v)

\* C15: store_vec, store_vecs, query_bucket, query_bucket_ids and delete_vec
\* return an error and leave the buckets, the vector store and the id counter
\* as they were whenever an input vector, for store_vecs any vector of the
\* batch, has a length different from dim.
C15_ShapeMismatchIsAnError ==
    [][(/\ last'.op \in {"store_vec", "store_vecs", "query_bucket",
                         "query_bucket_ids", "delete_vec"}
        /\ WrongShape(last')) =>
           (/\ ~last'.ok
            /\ ~panicked'
            /\ hash_tables' = hash_tables)]_vars

\* C16: a storage-layer failure of the insert that put performs on the SQL
\* backend is returned as an error by put, and so by store_vec and
\* store_vecs: a call made while the inserts fail does not return an id.
C16_InsertFailureIsAnError ==
    (/\ backend = "sql"
     /\ sql_fault
     /\ last.op \in {"store_vec", "store_vecs"}
     /\ ~WrongShape(last)
     /\ last.vs # <<>> \/ last.op = "store_vec") =>
        /\ ~last.ok
        /\ \A t \in Tables, v \in Vectors :
               ~SqlTable_put(hash_tables.val, hash_vec_put(hashers[t], v), v, t).res.ok

\* C17: after store_vec(v) returned id i on an SQL-backed index and commit()
\* was called, an index opened later on the same database file with the same
\* K, L and dim and any seed uses the persisted hashers, not the ones it
\* generated, and its query_bucket_ids(v) contains i.
C17_ReopenFindsCommitted ==
    (backend = "sql" /\ reopened.times > 0) =>
        /\ ~panicked
        /\ hash_tables.some
        /\ hashers = hash_tables.val.state.val
        /\ (last.op = "query_bucket_ids" /\ validate_vec(last.v)) =>
               /\ last.ok
               /\ \A r \in committed_stored : r.v = last.v => r.id \in Range(last.ids)

\* a query on an index opened with another seed that found a committed id
C17_Witness ==
    /\ backend = "sql"
    /\ reopened.times > 0
    /\ reopened.other_seed
    /\ last.op = "query_bucket_ids"
    /\ last.ok
    /\ \E r \in committed_stored : r.v = last.v /\ r.id \in Range(last.ids)

\* C18: on the SQL backend, after commit() returned, every put made before
\* it is visible: query_bucket for a codeword and table returns every id put
\* under that codeword in that table, whatever put, query_bucket, commit and
\* init_transaction calls were made.
C18_CommittedPutsAreVisible ==
    (backend = "sql" /\ hash_tables.some /\ ~panicked) =>
        \A r \in committed_stored, t \in Tables :
            LET q == SqlTable_query_bucket(hash_tables.val,
                                           hash_vec_put(hashers[t], r.v), t)
            IN q.res.ok /\ r.id \in q.res.val

\* a commit() that returned after two puts, on the connection that made them
C18_Witness ==
    /\ backend = "sql"
    /\ reopened.times = 0
    /\ last.op = "commit"
    /\ last.ok
    /\ Cardinality(committed_stored) >= 2
    /\ ~hash_tables.val.in_txn

\* what the index that wrote dump_file answers to query_bucket_ids(v): the
\* union read with its own probing settings
DumpedUnion(v) ==
    IF dump_file.multi_probe
    THEN multi_probe_under(dump_file.blob.hash_tables.val, v,
                           dump_file.multi_probe_budget).res
    ELSE single_probe_bucket_union(dump_file.blob.hash_tables.val, v).res

\* C19: after dump(path) on in-memory index A and load(path) on an in-memory
\* index B of the same family, whatever B's builder settings were, B holds
\* A's hashers, buckets, vector store, id counter, K, L and dim, and
\* query_bucket_ids(q) and query_bucket(q) on B return what they return on A.
C19_LoadedIndexAnswersAlike ==
    (dump_file.loaded /\ dump_file.blob.hash_tables.some) =>
        /\ hashers = dump_file.blob.hashers
        /\ hash_tables = dump_file.blob.hash_tables
        /\ n_hash_tables = dump_file.blob.n_hash_tables
        /\ n_projections = dump_file.blob.n_projections
        /\ dim = dump_file.blob.dim
        /\ (last.op = "query_bucket_ids" /\ validate_vec(last.v)) =>
               /\ ~panicked
               /\ last.ok = DumpedUnion(last.v).ok
               /\ last.ok => Range(last.ids) = DumpedUnion(last.v).val
        /\ (last.op = "query_bucket" /\ validate_vec(last.v)) =>
               /\ ~panicked
               /\ last.ok = (DumpedUnion(last.v).ok /\ ~dump_file.only_index_storage)
               /\ last.ok =>
                      Range(last.points)
                          = {idx_to_datapoint(dump_file.blob.hash_tables.val, i).val :
                                i \in DumpedUnion(last.v).val}

\* C20: query_bucket_ids_batch(vs) and query_bucket_ids_batch_par(vs) return
\* one entry per input, in input order, and entry j holds the id set of
\* query_bucket_ids(vs[j]), for every order in which the worker threads run;
\* the batch is an error exactly when one of its queries is.
C20_BatchIsQueryPerInput ==
    (/\ last.op \in {"query_bucket_ids_batch", "query_bucket_ids_batch_par"}
     /\ ~panicked) =>
        /\ last.ok <=> \A j \in 1 .. Len(last.vs) : validate_vec(last.vs[j])
        /\ last.ok =>
               /\ Len(last.batch) = Len(last.vs)
               /\ \A j \in 1 .. Len(last.vs) :
                      /\ Range(last.batch[j]) = UnionOf(hash_tables.val, last.vs[j])
                      /\ Len(last.batch[j]) = Cardinality(Range(last.batch[j]))

\* a parallel batch of two inputs whose second worker finished first and whose
\* entries differ
C20_Witness ==
    /\ last.op = "query_bucket_ids_batch_par"
    /\ last.ok
    /\ Len(last.vs) = 2
    /\ par.finished = <<2, 1>>
    /\ Range(last.batch[1]) # Range(last.batch[2])
    /\ last.batch[1] # <<>>

\* the least element of a non-empty set of numbers
Least(S) == CHOOSE x \in S : \A y \in S : x <= y

\* C21: for every presence vector v in {0,1}^dim and every row j of pi,
\* element j of hash_vec_query(v) is the least nonzero value of the
\* elementwise product of row j with v, or dim when every product is zero;
\* the codeword has length K.
C21_MinHashCodeword ==
    (last.op = "hash_vec_query" /\ family = "minhash") =>
        LET pi == hashers[last.id].pi
            code == last.hashes[1]
        IN /\ Len(code) = n_projections
           /\ \A j \in 1 .. n_projections :
                  LET products == {pi[j][i] * last.v[i] : i \in 1 .. dim} \ {0}
                  IN code[j] = IF products = {} THEN dim ELSE Least(products)

\* the number of nonzero elements of a perturbation vector
Weight(p) == Cardinality({i \in DOMAIN p : p[i] # 0})

\* the smaller of two numbers
Smaller(a, b) == IF a <= b THEN a ELSE b

\* C22: step_wise_probing(K, budget, false) returns the first
\* min(budget, 2^K - 1) perturbation vectors of the enumeration by increasing
\* Hamming weight (every vector of weight k before any of weight k + 1), so
\* never more than budget vectors, for every K >= 1 and every budget >= 0.
C22_StepWiseIsWeightOrderedPrefix ==
    last.op = "step_wise_probe" =>
        LET seq == last.perturbs
            b == last.budget
            K == n_projections
        IN /\ last.ok
           /\ Len(seq) = Smaller(b, 2^K - 1)
           /\ \A i \in DOMAIN seq :
                  /\ seq[i] \in [1 .. K -> {0, 1}]
                  /\ Weight(seq[i]) >= 1
                  /\ \A j \in DOMAIN seq :
                         /\ i < j => Weight(seq[i]) <= Weight(seq[j])
                         /\ i # j => seq[i] # seq[j]
                  /\ \A p \in [1 .. K -> {0, 1}] :
                         (Weight(p) >= 1 /\ Weight(p) < Weight(seq[i])) => p \in Range(seq)

\* C23: for each perturbation vector, SRP step_wise_probe flips the
\* perturbed bits of the original code (0 becomes 1, 1 becomes 0) and leaves
\* the others: every probed codeword has its elements in {0, 1} and differs
\* from the original codeword in exactly the perturbed positions.
C23_ProbeFlipsPerturbedBits ==
    (last.op = "step_wise_probe" /\ last.ok) =>
        LET original == hash_vec(hashers[last.id], last.v)
        IN /\ Len(last.hashes) = Len(last.perturbs)
           /\ \A p \in DOMAIN last.hashes :
                  /\ Len(last.hashes[p]) = n_projections
                  /\ \A i \in 1 .. n_projections :
                         /\ last.hashes[p][i] \in {0, 1}
                         /\ (last.hashes[p][i] # original[i])
                                <=> (last.perturbs[p][i] # 0)

\* C24: whenever query_directed_probe(q, budget) succeeds it returns exactly
\* budget + 1 codewords, each of length K, and the first one is the
\* unperturbed codeword hash_vec_query(q).
C24_ProbeReturnsBudgetPlusOne ==
    (last.op = "query_directed_probe" /\ last.ok) =>
        /\ Len(last.hashes) = last.budget + 1
        /\ \A k \in DOMAIN last.hashes : Len(last.hashes[k]) = n_projections
        /\ last.hashes[1] = hash_and_cast_vec(hashers[last.id], last.v)

\* a call on a hasher of length 2 that returned five codewords, perturbed ones
\* among them
C24_Witness ==
    /\ last.op = "query_directed_probe"
    /\ last.ok
    /\ n_projections = 2
    /\ last.budget = 4
    /\ Len(last.hashes) = 5
    /\ \E k \in DOMAIN last.hashes : last.hashes[k] # last.hashes[1]

\* the perturb states a query_directed_probe call has made so far
PerturbStates == probe.heap \cup Range(probe.popped)

\* the sum of f over a finite set
RECURSIVE SumOver(_, _)
SumOver(S, f) ==
    IF S = {} THEN 0
    ELSE LET x == CHOOSE y \in S : TRUE
         IN f[x] + SumOver(S \ {x}, f)

\* the state of test_perturbstate, its distances in tenths
TestState ==
    PerturbState_new(<<1, 6, 0, 3, 2, 5, 7, 4>>, <<10, 1, 30, 20, 90, 40, 8, 50>>, 4,
                     <<0, 0, 0, 0>>)

\* score, gen_hash, expand and shift of one perturb state are what the
\* selection, the sorted indexes and the distances determine
PerturbArithmetic(ps) ==
    LET S == Range(ps.selection)
        zs == [s \in S |-> ps.z[s + 1]]
        K == ps.switchpoint
        m == ps.selection[Len(ps.selection)]
        at_end == m = Len(ps.z) - 1
    IN /\ score(ps) = SumOver(S, [s \in S |-> ps.distances[zs[s] + 1]])
       /\ gen_hash(ps) =
              [i \in 1 .. Len(ps.original_hash) |->
                  ps.original_hash[i]
                      - Cardinality({s \in S : zs[s] < K /\ zs[s] = i - 1})
                      + Cardinality({s \in S : zs[s] >= K /\ zs[s] - K = i - 1})]
       /\ expand(ps).ok = ~at_end
       /\ shift(ps).ok = ~at_end
       /\ ~at_end =>
              /\ expand(ps).val.selection = ps.selection \o <<m + 1>>
              /\ shift(ps).val.selection
                     = SubSeq(ps.selection, 1, Len(ps.selection) - 1) \o <<m + 1>>

\* C25: for a perturb state with selection S over the argsorted indexes z,
\* distances d and switchpoint K, score() is the sum of d[z[s]] over s in S;
\* gen_hash() is the original codeword with 1 subtracted at z[s] for each
\* z[s] < K and 1 added at z[s] - K for each z[s] >= K; expand() appends
\* m + 1 and shift() replaces the last element m by m + 1, and both return
\* an error when m is the last index of z.  The state of test_perturbstate
\* scores 0.1 and gives [0,-1,0,0], expanded 0.9 and [0,-1,1,0], shifted 0.8
\* and [0,0,1,0].
C25_PerturbStateArithmetic ==
    /\ \A ps \in PerturbStates : PerturbArithmetic(ps)
    /\ probe.active =>
           /\ PerturbArithmetic(TestState)
           /\ score(TestState) = 1
           /\ gen_hash(TestState) = <<0, -1, 0, 0>>
           /\ score(expand(TestState).val) = 9
           /\ gen_hash(expand(TestState).val) = <<0, -1, 1, 0>>
           /\ score(shift(TestState).val) = 8
           /\ gen_hash(shift(TestState).val) = <<0, 0, 1, 0>>

\* a call that popped a state which lowers one element and raises another,
\* and a state whose selection ends at the last index
C25_Witness ==
    /\ probe.active
    /\ \E ps \in Range(probe.popped) :
           /\ Len(ps.selection) >= 2
           /\ \E i, j \in DOMAIN gen_hash(ps) :
                  /\ gen_hash(ps)[i] < ps.original_hash[i]
                  /\ gen_hash(ps)[j] > ps.original_hash[j]
    /\ \E ps \in Range(probe.popped) :
           /\ ~expand(ps).ok
           /\ ~shift(ps).ok

\* C29: the budget + 1 codewords a successful query_directed_probe(q, budget)
\* returns are pairwise distinct, so no bucket of a table is probed twice for
\* one query and no perturbation gives the original codeword again; for
\* every K >= 1 and every budget <= 2^(2K) - 1.
C29_ProbedCodewordsAreDistinct ==
    (last.op = "query_directed_probe" /\ last.ok /\ last.budget <= Perturbations) =>
        \A i, j \in DOMAIN last.hashes : i # j => last.hashes[i] # last.hashes[j]

\* the shift and the expansion of a perturb state, where they exist
Successors(ps) ==
    (IF shift(ps).ok THEN {shift(ps).val} ELSE {})
        \cup (IF expand(ps).ok THEN {expand(ps).val} ELSE {})

\* C30: given non-negative boundary distances, the perturb states popped in
\* successive rounds of query_directed_probe have non-decreasing scores, and
\* the successors (shift, expand) of every popped state are pushed before the
\* next pop, so no state with a smaller score than an emitted one is emitted
\* later.
C30_ProbingIsBestFirst ==
    (\A ps \in PerturbStates : \A d \in Range(ps.distances) : d >= 0) =>
        /\ \A i, j \in DOMAIN probe.popped :
               i < j => score(probe.popped[i]) <= score(probe.popped[j])
        /\ \A ps \in Range(probe.popped) : Successors(ps) \subseteq PerturbStates
        /\ \A ps \in Range(probe.popped), waiting \in probe.heap :
               score(ps) <= score(waiting)
        /\ Len(probe.hashes) = Len(probe.popped) + (IF probe.q = <<>> THEN 0 ELSE 1)
        /\ \A k \in DOMAIN probe.popped : probe.hashes[k + 1] = gen_hash(probe.popped[k])

\* a call that popped states of several scores, two of them equal, while
\* states of a greater score wait on the heap
C30_Witness ==
    /\ probe.active
    /\ Len(probe.popped) >= 3
    /\ \E i, j \in DOMAIN probe.popped :
           i < j /\ score(probe.popped[i]) < score(probe.popped[j])
    /\ \E i, j \in DOMAIN probe.popped :
           i # j /\ score(probe.popped[i]) = score(probe.popped[j])
    /\ \E waiting \in probe.heap :
           score(waiting) > score(probe.popped[Len(probe.popped)])

\* the number of rows of table t of an SQL backend that carry the id
PostingsOf(ht, t, id) ==
    LET rows == {x \in BagToSet(ht.rows[t]) : x[2] = id}
    IN SumOver(rows, [x \in rows |-> CopiesIn(x, ht.rows[t])])

\* C27: ids stay unique across sessions of a persisted SQL index: after a
\* database file that holds committed postings was opened again, store_vec
\* never returns an id that one of the hash tables of the database already
\* holds, so the id it returned is posted once per table.
C27_IdsUniqueAcrossSessions ==
    (/\ backend = "sql"
     /\ reopened.times > 0
     /\ committed_stored # {}
     /\ hash_tables.some
     /\ last.op = "store_vec"
     /\ last.ok) =>
        \A t \in Tables : PostingsOf(hash_tables.val, t, last.id) = 1

\* the call was a store_vec, store_vecs or update_by_idx that returned Err
FailedMutation(call) ==
    /\ call.op \in {"store_vec", "store_vecs", "update_by_idx"}
    /\ ~call.ok

\* C26: an engine mutation that returns an error leaves the index usable and
\* unchanged: after store_vec, store_vecs or update_by_idx returned Err (for
\* example an update_by_idx whose old codeword has no bucket in some table)
\* the backend is still installed in the index, no table was modified, and a
\* following query_bucket_ids returns a result instead of aborting.
C26_FailedMutationKeepsIndex ==
    [][/\ (FailedMutation(last') /\ ~panicked') =>
              (hash_tables'.some /\ hash_tables' = hash_tables)
       /\ (/\ FailedMutation(last)
           /\ ~panicked
           /\ last'.op = "query_bucket_ids"
           /\ validate_vec(last'.v)) => ~panicked']_vars

\* C28: query_bucket resolves each id to the vector currently associated
\* with it: on an in-memory index that stores vectors, after
\* update_by_idx(id, new, old) returned Ok for an id stored as old, the entry
\* query_bucket(new) returns for id equals new, not old, and delete_vec(new)
\* then removes id from the buckets of new.
C28_UpdatedIdResolvesToNew ==
    (/\ last.op = "update_by_idx"
     /\ last.ok
     /\ last.pre_ok
     /\ backend = "mem"
     /\ ~only_index_storage) =>
        /\ last.id \in UnionOf(hash_tables.val, last.v)
        /\ idx_to_datapoint(hash_tables.val, last.id) = Ok(last.v)
        /\ last.id \notin UnionOf(delete_vec(hash_tables.val, last.v).ht.val, last.v)

====
